---- MODULE Spec2Model ----
(***************************************************************************)
(* A model of src/app.py: the ThresholdConfig expression builders, the     *)
(* section registry and the DAXGenerator composer.                         *)
(*                                                                         *)
(* Text is modelled structurally.  A name (metric name, VAR name, label)   *)
(* is a sequence of string tokens, so that name.replace(" ", "") and the   *)
(* "_Color"/"_Status" suffixes are computed.  An emitted DAX expression is *)
(* a tree of nodes [op, args, s, n]; DaxEval gives it the value the DAX    *)
(* engine computes for it.  An artifact is the sequence of its fragments.  *)
(***************************************************************************)
EXTENDS Integers, Sequences, FiniteSets, TLC

VARIABLES
    gens,       \* the DAXGenerator objects: generator id -> its attributes
    outs,       \* per generator: the outcome of its last generate_dax call
    thr,        \* a ThresholdConfig under evaluation
    val,        \* the value of the metric variable the conditions test
    colour,     \* the colour expression built for thr and its value on val
    status,     \* the status expression built for thr and its value on val
    data,       \* what the window aggregates of the trend bindings return
    bound,      \* the values of the binding block's VARs once evaluated
    session,    \* st.session_state of the wizard
    module,     \* the module-level THEMES, ICONS and AVAILABLE_SECTIONS
    pc,         \* per generator: where its running generate_dax call stands
    frames,     \* per call: its local list of sections
    quoted      \* a name and what the successive quotings of it gave

vars == <<gens, outs, thr, val, colour, status, data, bound, session, module, pc, frames, quoted>>

genVars == <<gens, outs>>
thresholdVars == <<thr, val, colour, status>>
evalVars == <<data, bound>>
wizardVars == <<session>>
moduleVars == <<module>>
callVars == <<pc, frames>>
quoteVars == <<quoted>>

(***************************************************************************)
(* Bounds of the model.                                                    *)
(***************************************************************************)
MaxCut == 2
MaxMetrics == 2
MaxRequested == 2
MaxRows == 2
MaxCalls == 2
MaxLen == 3
MaxQuotings == 2
MaxTenths == 100

(***************************************************************************)
(* DAX expressions and their values.                                       *)
(***************************************************************************)
Node(op, args, s, n) == [op |-> op, args |-> args, s |-> s, n |-> n]
Num(n) == Node("num", <<>>, <<>>, n)
Str(s) == Node("str", <<>>, <<s>>, 0)
Ref(name) == Node("ref", <<>>, name, 0)
RECURSIVE Concat(_)
Concat(ss) == IF ss = <<>> THEN <<>> ELSE Head(ss) \o Concat(Tail(ss))

\* The f-string templates '{table}' and [{column}] around a name, which is
\* a sequence of pieces of text.
TableReference(name) == <<"'">> \o name \o <<"'">>

ColumnReference_bare(name) == name

ColumnReference(name) == <<"[">> \o name \o <<"]">>

Col(table, column) == Node("col", <<>>, TableReference(<<table>>) \o ColumnReference(<<column>>), 0)
Call(f, args) == Node("call", args, <<f>>, 0)
Bin(op, l, r) == Node(op, <<l, r>>, <<>>, 0)
If(c, t, e) == Node("IF", <<c, t, e>>, <<>>, 0)

NumV(n, d) == [t |-> "num", n |-> n, d |-> d, s |-> <<>>]
StrV(s) == [t |-> "str", n |-> 0, d |-> 1, s |-> s]
BoolV(b) == [t |-> "bool", n |-> IF b THEN 1 ELSE 0, d |-> 1, s |-> <<>>]
BlankV == [t |-> "blank", n |-> 0, d |-> 1, s |-> <<>>]
ErrorV == [t |-> "error", n |-> 0, d |-> 1, s |-> <<>>]

\* BLANK takes part in arithmetic and in comparisons as 0.
AsNum(v) == IF v.t = "blank" THEN NumV(0, 1) ELSE v
IsNumeric(v) == v.t \in {"num", "blank"}
Less(a, b) == AsNum(a).n * AsNum(b).d < AsNum(b).n * AsNum(a).d
Same(a, b) == AsNum(a).n * AsNum(b).d = AsNum(b).n * AsNum(a).d
Truth(v) == v.t = "bool" /\ v.n = 1

Pow10(k) == CASE k = 0 -> 1 [] k = 1 -> 10 [] k = 2 -> 100 [] k = 3 -> 1000 [] OTHER -> 10000
Abs(x) == IF x < 0 THEN -x ELSE x
Sgn(x) == IF x < 0 THEN -1 ELSE 1
\* ROUND(v, k): to k decimals, halves away from zero.
RoundV(v, k) ==
    LET a == AsNum(v)
        q == (2 * Abs(a.n) * Pow10(k) + a.d) \div (2 * a.d)
    IN  IF v.t = "blank" THEN BlankV ELSE NumV(Sgn(a.n) * q, Pow10(k))

Compare(op, a, b) ==
    CASE op = ">=" -> ~Less(a, b)
      [] op = "<=" -> ~Less(b, a)
      [] op = ">"  -> Less(b, a)
      [] op = "<"  -> Less(a, b)
      [] op = "<>" -> ~Same(a, b)
      [] OTHER     -> Same(a, b)

Comparisons == {">=", "<=", ">", "<", "<>", "="}

RECURSIVE DaxEval(_, _)
DaxEval(e, env) ==
    CASE e.op = "num" -> NumV(e.n, 1)
      [] e.op = "str" -> StrV(e.s)
      [] e.op = "ref" -> IF e.s \in DOMAIN env THEN env[e.s] ELSE ErrorV
      [] e.op = "col" -> IF e.s \in DOMAIN env THEN env[e.s] ELSE ErrorV
      [] e.op = "IF" ->
            LET c == DaxEval(e.args[1], env)
            IN  IF c.t = "error" THEN ErrorV
                ELSE IF Truth(c) THEN DaxEval(e.args[2], env)
                ELSE IF Len(e.args) = 3 THEN DaxEval(e.args[3], env)
                ELSE BlankV
      [] e.op \in Comparisons ->
            LET a == DaxEval(e.args[1], env)
                b == DaxEval(e.args[2], env)
            IN  IF IsNumeric(a) /\ IsNumeric(b) THEN BoolV(Compare(e.op, a, b)) ELSE ErrorV
      [] e.op = "&&" ->
            LET a == DaxEval(e.args[1], env)
                b == DaxEval(e.args[2], env)
            IN  IF a.t = "bool" /\ b.t = "bool" THEN BoolV(Truth(a) /\ Truth(b)) ELSE ErrorV
      [] e.op = "||" ->
            LET a == DaxEval(e.args[1], env)
                b == DaxEval(e.args[2], env)
            IN  IF a.t = "bool" /\ b.t = "bool" THEN BoolV(Truth(a) \/ Truth(b)) ELSE ErrorV
      [] e.op = "-" ->
            LET a == DaxEval(e.args[1], env)
                b == DaxEval(e.args[2], env)
            IN  IF ~(IsNumeric(a) /\ IsNumeric(b)) THEN ErrorV
                ELSE IF a.t = "blank" /\ b.t = "blank" THEN BlankV
                ELSE NumV(AsNum(a).n * AsNum(b).d - AsNum(b).n * AsNum(a).d, AsNum(a).d * AsNum(b).d)
      [] e.op = "*" ->
            LET a == DaxEval(e.args[1], env)
                b == DaxEval(e.args[2], env)
            IN  IF ~(IsNumeric(a) /\ IsNumeric(b)) THEN ErrorV
                ELSE IF a.t = "blank" \/ b.t = "blank" THEN BlankV
                ELSE NumV(a.n * b.n, a.d * b.d)
      [] e.op = "call" /\ e.s = <<"BLANK">> -> BlankV
      [] e.op = "call" /\ e.s = <<"ISBLANK">> ->
            LET a == DaxEval(e.args[1], env)
            IN  IF a.t = "error" THEN ErrorV ELSE BoolV(a.t = "blank")
      [] e.op = "call" /\ e.s = <<"NOT">> ->
            LET a == DaxEval(e.args[1], env)
            IN  IF a.t = "bool" THEN BoolV(~Truth(a)) ELSE ErrorV
      [] e.op = "call" /\ e.s = <<"ROUND">> ->
            LET a == DaxEval(e.args[1], env)
            IN  IF IsNumeric(a) THEN RoundV(a, e.args[2].n) ELSE ErrorV
      [] e.op = "call" /\ e.s = <<"DIVIDE">> ->
            LET a == DaxEval(e.args[1], env)
                b == DaxEval(e.args[2], env)
            IN  IF ~(IsNumeric(a) /\ IsNumeric(b)) THEN ErrorV
                ELSE IF AsNum(b).n = 0 THEN DaxEval(e.args[3], env)
                ELSE IF a.t = "blank" THEN BlankV
                ELSE NumV(Sgn(b.n) * a.n * b.d, Abs(b.n) * a.d)
      [] OTHER -> ErrorV

(***************************************************************************)
(* ColorTheme and THEMES.                                                  *)
(***************************************************************************)
ColorTheme(name, primary, secondary, success, warning, danger, neutral, background, light_success, light_warning, light_danger, light_primary) ==
    [name |-> name, primary |-> primary, secondary |-> secondary, success |-> success,
     warning |-> warning, danger |-> danger, neutral |-> neutral,
     background |-> background, light_success |-> light_success,
     light_warning |-> light_warning, light_danger |-> light_danger,
     light_primary |-> light_primary]

THEMES ==
    [n \in {"Corporate Blue", "Professional Gray", "Modern Purple", "Elegant Green",
            "Executive Dark"} |->
        CASE n = "Corporate Blue" -> ColorTheme(n, "#3b82f6", "#1e40af", "#059669",
                "#f59e0b", "#dc2626", "#6b7280", "#f8fafc", "#d1fae5", "#fef3c7",
                "#fee2e2", "#dbeafe")
          [] n = "Professional Gray" -> ColorTheme(n, "#64748b", "#334155", "#10b981",
                "#f59e0b", "#ef4444", "#94a3b8", "#f1f5f9", "#d1fae5", "#fef3c7",
                "#fee2e2", "#e2e8f0")
          [] n = "Modern Purple" -> ColorTheme(n, "#8b5cf6", "#6d28d9", "#059669",
                "#f59e0b", "#dc2626", "#6b7280", "#faf5ff", "#d1fae5", "#fef3c7",
                "#fee2e2", "#ede9fe")
          [] n = "Elegant Green" -> ColorTheme(n, "#059669", "#047857", "#10b981",
                "#f59e0b", "#dc2626", "#6b7280", "#f0fdf4", "#d1fae5", "#fef3c7",
                "#fee2e2", "#d1fae5")
          [] OTHER -> ColorTheme(n, "#1e293b", "#0f172a", "#10b981",
                "#f59e0b", "#ef4444", "#64748b", "#f8fafc", "#d1fae5", "#fef3c7",
                "#fee2e2", "#cbd5e1")]

\* ICONS: per category the icons on offer, as code points.
ICONS ==
    <<[name |-> "metrics", icons |-> <<"U+1F4CA", "U+1F4C8", "U+1F4C9", "U+1F4B9", "U+1F3AF", "U+26A1", "U+1F4A1", "U+1F50D">>],
      [name |-> "performance", icons |-> <<"U+1F3C6", "U+2B50", "U+1F31F", "U+2728", "U+1F451", "U+1F396 U+FE0F", "U+1F947", "U+1F48E">>],
      [name |-> "warning", icons |-> <<"U+26A0 U+FE0F", "U+1F6A8", "U+1F534", "U+26D4", "U+1F514", "U+1F4E2", "U+1F6A9", "U+26A1">>],
      [name |-> "positive", icons |-> <<"U+2705", "U+1F49A", "U+1F44D", "U+1F60A", "U+1F389", "U+1F308", "U+1F525", "U+1F4AA">>],
      [name |-> "negative", icons |-> <<"U+274C", "U+1F534", "U+1F44E", "U+1F61F", "U+26A0 U+FE0F", "U+1F4C9", "U+1F527", "U+1F494">>],
      [name |-> "analysis", icons |-> <<"U+1F52C", "U+1F50E", "U+1F4CB", "U+1F4DD", "U+1F5C2 U+FE0F", "U+1F4CC", "U+1F393", "U+1F9E0">>],
      [name |-> "geographic", icons |-> <<"U+1F30D", "U+1F30E", "U+1F30F", "U+1F5FA U+FE0F", "U+1F4CD", "U+1F3E2", "U+1F310", "U+1F6EB">>],
      [name |-> "people", icons |-> <<"U+1F468 U+200D U+1F3EB", "U+1F465", "U+1F464", "U+1F9D1 U+200D U+1F4BC", "U+1F468 U+200D U+1F4BB", "U+1F469 U+200D U+1F4BB", "U+1F64B", "U+1F91D">>],
      [name |-> "trend", icons |-> <<"U+1F4C8", "U+1F4C9", "U+1F4B9", "U+1F504", "U+2B06 U+FE0F", "U+2B07 U+FE0F", "U+2197 U+FE0F", "U+2198 U+FE0F">>]>>

(***************************************************************************)
(* NarrativeSection and AVAILABLE_SECTIONS (a dict: its order is the order *)
(* of insertion).                                                          *)
(***************************************************************************)
NarrativeSection(id, requires_categorical, requires_text, requires_date) ==
    [id |-> id, requires_categorical |-> requires_categorical,
     requires_text |-> requires_text, requires_date |-> requires_date]

AVAILABLE_SECTIONS ==
    << NarrativeSection("header", FALSE, FALSE, FALSE),
       NarrativeSection("kpi_cards", FALSE, FALSE, FALSE),
       NarrativeSection("trend_analysis", FALSE, FALSE, TRUE),
       NarrativeSection("performance_table", TRUE, FALSE, FALSE),
       NarrativeSection("top_bottom", TRUE, FALSE, FALSE),
       NarrativeSection("geographic", TRUE, FALSE, FALSE),
       NarrativeSection("action_dashboard", FALSE, FALSE, FALSE),
       NarrativeSection("positive_verbatim", FALSE, TRUE, FALSE),
       NarrativeSection("negative_verbatim", FALSE, TRUE, FALSE),
       NarrativeSection("theme_analysis", FALSE, TRUE, FALSE),
       NarrativeSection("distribution", FALSE, FALSE, FALSE),
       NarrativeSection("velocity", FALSE, FALSE, TRUE) >>

(***************************************************************************)
(* What the program's state is where a part of it is not in use.           *)
(***************************************************************************)
Module == [THEMES |-> THEMES, ICONS |-> ICONS, AVAILABLE_SECTIONS |-> AVAILABLE_SECTIONS]
Imported == module = Module

Absent == [some |-> FALSE, v |-> <<>>]
Present(v) == [some |-> TRUE, v |-> v]
\* st.session_state before the first run of the script.
FreshSession ==
    [df |-> Absent, config |-> Absent, text_score_mapping |-> Absent, metric_configs |-> Absent,
     thresholds |-> Absent, icons |-> Absent, enabled_sections |-> Absent, theme |-> Absent,
     generated_dax |-> Absent, widgets |-> Absent]
NoWizard == session = FreshSession

NoCalls == <<>>
NoCallRunning == pc = NoCalls /\ frames = NoCalls

NotQuoted == <<>>
NothingQuoted == quoted = NotQuoted

(***************************************************************************)
(* ThresholdConfig.  A bound is None or a number.                          *)
(***************************************************************************)
None == [some |-> FALSE, v |-> 0]
Some(v) == [some |-> TRUE, v |-> v]

ThresholdDirection == {"HIGHER_BETTER", "LOWER_BETTER", "RANGE_OPTIMAL"}

ThresholdConfig(metric_name, direction, excellent_min, excellent_max, good_min, good_max, warning_min, warning_max) ==
    [metric_name |-> metric_name, direction |-> direction,
     excellent_min |-> excellent_min, excellent_max |-> excellent_max,
     good_min |-> good_min, good_max |-> good_max,
     warning_min |-> warning_min, warning_max |-> warning_max,
     critical_min |-> None, critical_max |-> None]

\* An f-string renders a bound as its number, and None as the bare word None.
Lit(b) == IF b.some THEN Num(b.v) ELSE Ref(<<"None">>)

Between(var_name, lo, hi) ==
    Bin("&&", Bin(">=", Ref(var_name), Lit(lo)), Bin("<=", Ref(var_name), Lit(hi)))

\* Mutants of the two condition builders.
get_dax_condition_no_default(self, var_name, theme) ==
    LET lo(b) == IF self.direction = "LOWER_BETTER" THEN Bin("<=", Ref(var_name), Lit(b[2]))
                 ELSE IF self.direction = "HIGHER_BETTER" THEN Bin(">=", Ref(var_name), Lit(b[1]))
                 ELSE Between(var_name, b[1], b[2])
    IN  If(lo(<<self.excellent_min, self.excellent_max>>), Str(theme.success),
        If(lo(<<self.good_min, self.good_max>>), Str(theme.primary),
        Node("IF", <<lo(<<self.warning_min, self.warning_max>>), Str(theme.warning)>>, <<>>, 0)))

get_dax_condition_strict(self, var_name, theme) ==
    LET lo(b) == IF self.direction = "LOWER_BETTER" THEN Bin("<", Ref(var_name), Lit(b[2]))
                 ELSE IF self.direction = "HIGHER_BETTER" THEN Bin(">", Ref(var_name), Lit(b[1]))
                 ELSE Bin("&&", Bin(">", Ref(var_name), Lit(b[1])), Bin("<", Ref(var_name), Lit(b[2])))
    IN  If(lo(<<self.excellent_min, self.excellent_max>>), Str(theme.success),
        If(lo(<<self.good_min, self.good_max>>), Str(theme.primary),
        If(lo(<<self.warning_min, self.warning_max>>), Str(theme.warning),
        Str(theme.danger))))

get_dax_condition_good_first(self, var_name, theme) ==
    LET lo(b) == IF self.direction = "LOWER_BETTER" THEN Bin("<=", Ref(var_name), Lit(b[2]))
                 ELSE IF self.direction = "HIGHER_BETTER" THEN Bin(">=", Ref(var_name), Lit(b[1]))
                 ELSE Between(var_name, b[1], b[2])
    IN  If(lo(<<self.good_min, self.good_max>>), Str(theme.primary),
        If(lo(<<self.excellent_min, self.excellent_max>>), Str(theme.success),
        If(lo(<<self.warning_min, self.warning_max>>), Str(theme.warning),
        Str(theme.danger))))

get_dax_condition_secondary(self, var_name, theme) ==
    LET lo(b) == IF self.direction = "LOWER_BETTER" THEN Bin("<=", Ref(var_name), Lit(b[2]))
                 ELSE IF self.direction = "HIGHER_BETTER" THEN Bin(">=", Ref(var_name), Lit(b[1]))
                 ELSE Between(var_name, b[1], b[2])
    IN  If(lo(<<self.excellent_min, self.excellent_max>>), Str(theme.success),
        If(lo(<<self.good_min, self.good_max>>), Str(theme.secondary),
        If(lo(<<self.warning_min, self.warning_max>>), Str(theme.warning),
        Str(theme.danger))))

get_dax_condition(self, var_name, theme) ==
    IF self.direction = "HIGHER_BETTER" THEN
        If(Bin(">=", Ref(var_name), Lit(self.excellent_min)), Str(theme.success),
        If(Bin(">=", Ref(var_name), Lit(self.good_min)), Str(theme.primary),
        If(Bin(">=", Ref(var_name), Lit(self.warning_min)), Str(theme.warning),
        Str(theme.danger))))
    ELSE IF self.direction = "LOWER_BETTER" THEN
        If(Bin("<=", Ref(var_name), Lit(self.excellent_max)), Str(theme.success),
        If(Bin("<=", Ref(var_name), Lit(self.good_max)), Str(theme.primary),
        If(Bin("<=", Ref(var_name), Lit(self.warning_max)), Str(theme.warning),
        Str(theme.danger))))
    ELSE
        If(Between(var_name, self.excellent_min, self.excellent_max), Str(theme.success),
        If(Between(var_name, self.good_min, self.good_max), Str(theme.primary),
        If(Between(var_name, self.warning_min, self.warning_max), Str(theme.warning),
        Str(theme.danger))))

get_text_condition_copied_bounds(self, var_name) ==
    IF self.direction = "HIGHER_BETTER" THEN
        If(Bin(">=", Ref(var_name), Lit(self.excellent_min)), Str("excellent"),
        If(Bin(">=", Ref(var_name), Lit(self.good_min)), Str("strong"),
        If(Bin(">=", Ref(var_name), Lit(self.good_min)), Str("needs attention"),
        Str("critical"))))
    ELSE IF self.direction = "LOWER_BETTER" THEN
        If(Bin("<=", Ref(var_name), Lit(self.excellent_max)), Str("excellent"),
        If(Bin("<=", Ref(var_name), Lit(self.good_max)), Str("good"),
        If(Bin("<=", Ref(var_name), Lit(self.good_max)), Str("elevated"),
        Str("critical"))))
    ELSE
        If(Between(var_name, self.excellent_min, self.excellent_max), Str("optimal"),
        If(Between(var_name, self.good_min, self.good_max), Str("acceptable"),
        If(Between(var_name, self.good_min, self.good_max), Str("suboptimal"),
        Str("out of range"))))

get_text_condition_exclusive(self, var_name) ==
    IF self.direction = "HIGHER_BETTER" THEN
        If(Bin(">", Ref(var_name), Lit(self.excellent_min)), Str("excellent"),
        If(Bin(">", Ref(var_name), Lit(self.good_min)), Str("strong"),
        If(Bin(">", Ref(var_name), Lit(self.warning_min)), Str("needs attention"),
        Str("critical"))))
    ELSE IF self.direction = "LOWER_BETTER" THEN
        If(Bin("<", Ref(var_name), Lit(self.excellent_max)), Str("excellent"),
        If(Bin("<", Ref(var_name), Lit(self.good_max)), Str("good"),
        If(Bin("<", Ref(var_name), Lit(self.warning_max)), Str("elevated"),
        Str("critical"))))
    ELSE
        If(Between(var_name, self.excellent_min, self.excellent_max), Str("optimal"),
        If(Between(var_name, self.good_min, self.good_max), Str("acceptable"),
        If(Between(var_name, self.warning_min, self.warning_max), Str("suboptimal"),
        Str("out of range"))))

get_text_condition(self, var_name) ==
    IF self.direction = "HIGHER_BETTER" THEN
        If(Bin(">=", Ref(var_name), Lit(self.excellent_min)), Str("excellent"),
        If(Bin(">=", Ref(var_name), Lit(self.good_min)), Str("strong"),
        If(Bin(">=", Ref(var_name), Lit(self.warning_min)), Str("needs attention"),
        Str("critical"))))
    ELSE IF self.direction = "LOWER_BETTER" THEN
        If(Bin("<=", Ref(var_name), Lit(self.excellent_max)), Str("excellent"),
        If(Bin("<=", Ref(var_name), Lit(self.good_max)), Str("good"),
        If(Bin("<=", Ref(var_name), Lit(self.warning_max)), Str("elevated"),
        Str("critical"))))
    ELSE
        If(Between(var_name, self.excellent_min, self.excellent_max), Str("optimal"),
        If(Between(var_name, self.good_min, self.good_max), Str("acceptable"),
        If(Between(var_name, self.warning_min, self.warning_max), Str("suboptimal"),
        Str("out of range"))))

(***************************************************************************)
(* Evaluating the two conditions of a threshold on a value.                *)
(***************************************************************************)
Cuts == 0..MaxCut

\* The thresholds of the two worked scenarios: CSAT (9, 7, 5) and the
\* optimal range [40,60] / [30,70] / [20,80].
CsatThreshold ==
    ThresholdConfig(<<"CSAT">>, "HIGHER_BETTER", Some(9), None, Some(7), None, Some(5), None)
RangeThreshold ==
    ThresholdConfig(<<"CSAT">>, "RANGE_OPTIMAL", Some(40), Some(60), Some(30), Some(70), Some(20), Some(80))

\* The configurations the Metrics & Thresholds tab builds: the three minima
\* for HIGHER_BETTER, the three maxima for LOWER_BETTER, all six for
\* RANGE_OPTIMAL; the numbers are whatever the user typed, in any order.
HigherBetterConfigs ==
    {ThresholdConfig(<<"CSAT">>, "HIGHER_BETTER", Some(e), None, Some(g), None, Some(w), None) :
        e \in Cuts, g \in Cuts, w \in Cuts}
LowerBetterConfigs ==
    {ThresholdConfig(<<"CSAT">>, "LOWER_BETTER", None, Some(e), None, Some(g), None, Some(w)) :
        e \in Cuts, g \in Cuts, w \in Cuts}
RangeOptimalConfigs ==
    {ThresholdConfig(<<"CSAT">>, "RANGE_OPTIMAL", Some(e[1]), Some(e[2]), Some(g[1]), Some(g[2]), Some(w[1]), Some(w[2])) :
        e \in Cuts \X Cuts, g \in Cuts \X Cuts, w \in Cuts \X Cuts}
ThresholdConfigs ==
    HigherBetterConfigs \cup LowerBetterConfigs \cup RangeOptimalConfigs
        \cup {CsatThreshold, RangeThreshold}

\* The values of the aggregated metric: around the cut points, the value of
\* the range scenario, and BLANK (an aggregate over no rows).
MetricValues == {NumV(n, 1) : n \in (-1..(MaxCut + 1)) \cup {9, 75}} \cup {BlankV}

ThemeChoices == {"Corporate Blue", "Elegant Green"}

NotBuilt == [built |-> FALSE, theme |-> "", expr |-> Num(0), value |-> BlankV]
Built(theme, expr) ==
    [built |-> TRUE, theme |-> theme, expr |-> expr,
     value |-> DaxEval(expr, [x \in {thr.metric_name} |-> val])]

NoGenerators == <<>>
IdleData == [Last30DaysAvg |-> BlankV, Previous30DaysAvg |-> BlankV, ResponsesLast30 |-> BlankV, ResponsesPrev30 |-> BlankV]
NoBindings == <<>>

InitThreshold ==
    /\ thr \in ThresholdConfigs
    /\ val \in MetricValues
    /\ colour = NotBuilt
    /\ status = NotBuilt
    /\ gens = NoGenerators
    /\ outs = NoGenerators
    /\ data = IdleData
    /\ bound = NoBindings
    /\ Imported
    /\ NoWizard
    /\ NoCallRunning
    /\ NothingQuoted

\* _generate_variables line 244: the colour binding of the metric.
BuildColour(theme) ==
    /\ ~colour.built
    /\ colour' = Built(theme, get_dax_condition(thr, thr.metric_name, THEMES[theme]))
    /\ UNCHANGED <<gens, outs, thr, val, status, data, bound, wizardVars, moduleVars, callVars, quoteVars>>

\* _generate_variables line 245: the status binding of the metric.
BuildStatus ==
    /\ ~status.built
    /\ status' = Built("", get_text_condition(thr, thr.metric_name))
    /\ UNCHANGED <<gens, outs, thr, val, colour, data, bound, wizardVars, moduleVars, callVars, quoteVars>>

NextThreshold ==
    \/ \E theme \in ThemeChoices : BuildColour(theme)
    \/ BuildStatus

SpecThreshold == InitThreshold /\ [][NextThreshold]_vars

(***************************************************************************)
(* DAXGenerator.  self.metrics and self.text_columns are dicts: sequences  *)
(* of entries in insertion order.  A date column of None is "".            *)
(***************************************************************************)
NoDateColumn == ""

DAXGenerator(table_name, date_column, theme) ==
    [table |-> table_name, date_col |-> date_column, theme |-> theme,
     metrics |-> <<>>, categorical_columns |-> <<>>, text_columns |-> <<>>,
     enabled_sections |-> <<>>, icons |-> <<>>, thresholds |-> <<>>]

Keys(dict) == {dict[i].name : i \in 1..Len(dict)}
\* dict[name] = value: in place when the key is there, appended otherwise.
DictSet(dict, entry) ==
    IF entry.name \in Keys(dict)
    THEN [i \in 1..Len(dict) |-> IF dict[i].name = entry.name THEN entry ELSE dict[i]]
    ELSE Append(dict, entry)

add_metric(self, name, column, aggregation, format_decimals) ==
    [self EXCEPT !.metrics =
        DictSet(@, [name |-> name, column |-> column, aggregation |-> aggregation,
                    format |-> format_decimals])]

In(x, list) == \E i \in 1..Len(list) : list[i] = x
\* self.icons.get(category, default)
IconOf(self, category, default) ==
    IF category \in Keys(self.icons)
    THEN self.icons[CHOOSE i \in 1..Len(self.icons) : self.icons[i].name = category].icon
    ELSE default

(***************************************************************************)
(* Fragments.  A fragment is what one _generate_* method returns: its kind,*)
(* the VARs it declares and, in the order of the template, the values      *)
(* interpolated into it: text put inside the markup (Txt) and DAX          *)
(* expressions.  A method that raises returns the exception as a fragment. *)
(***************************************************************************)
Txt(s) == Node("text", <<>>, <<s>>, 0)
Name(tokens) == Node("text", <<>>, tokens, 0)
Tbl(table) == Node("table", <<>>, TableReference(<<table>>), 0)
Kw(word) == Node("keyword", <<>>, <<word>>, 0)
Amp(args) == Node("&", args, <<>>, 0)
Var(name, expr) == [name |-> name, expr |-> expr]
Fragment(kind, decls, parts) == [kind |-> kind, vars |-> decls, parts |-> parts]
IndexError == Fragment("IndexError", <<>>, <<>>)

\* name.replace(" ", "")
NoSpaces(name) == SelectSeq(name, LAMBDA t : t # " ")
Suffixed(var_name, suffix) == var_name \o <<suffix>>

V(word) == <<word>>
R(word) == Ref(<<word>>)

_generate_header(self) ==
    Fragment("comment", <<>>,
        <<Txt(self.theme.name),
          Node("join", [i \in 1..Len(self.enabled_sections) |-> Txt(self.enabled_sections[i])], <<", ">>, 0)>>)

CoreBindings(self) ==
    <<Var(V("TotalResponses"), Call("COUNTROWS", <<Tbl(self.table)>>))>>

DateBindings(self) ==
    IF self.date_col # NoDateColumn THEN
        <<Var(V("MaxDate"), Call("MAX", <<Col(self.table, self.date_col)>>)),
          Var(V("MinDate"), Call("MIN", <<Col(self.table, self.date_col)>>)),
          Var(V("Date30DaysAgo"), Bin("-", R("MaxDate"), Num(30))),
          Var(V("Date60DaysAgo"), Bin("-", R("MaxDate"), Num(60)))>>
    ELSE <<>>

ThresholdOf(self, name) ==
    (CHOOSE i \in 1..Len(self.thresholds) : self.thresholds[i].name = name)

MetricBinding(self, m) ==
    LET var_name == NoSpaces(m.name)
        value == Var(var_name,
                     Call("ROUND", <<Call(m.aggregation, <<Col(self.table, m.column)>>), Num(m.format)>>))
    IN  IF m.name \in Keys(self.thresholds) THEN
            LET threshold == self.thresholds[ThresholdOf(self, m.name)].config
            IN  <<value,
                  Var(Suffixed(var_name, "_Color"), get_dax_condition(threshold, var_name, self.theme)),
                  Var(Suffixed(var_name, "_Status"), get_text_condition(threshold, var_name))>>
        ELSE <<value>>

MetricBindings_grouped(self) ==
    LET each == [i \in 1..Len(self.metrics) |-> MetricBinding(self, self.metrics[i])]
    IN  [i \in 1..Len(each) |-> each[i][1]] \o Concat([i \in 1..Len(each) |-> Tail(each[i])])

MetricBindings(self) ==
    Concat([i \in 1..Len(self.metrics) |-> MetricBinding(self, self.metrics[i])])

InWindow(self, from) == Bin(">=", Col(self.table, self.date_col), R(from))
Before(self, to) == Bin("<", Col(self.table, self.date_col), R(to))

TrendBindings(self) ==
    IF self.date_col # NoDateColumn /\ self.metrics # <<>> THEN
        LET first_metric == self.metrics[1]
            agg == Call(first_metric.aggregation, <<Col(self.table, first_metric.column)>>)
        IN
        <<Var(V("Last30DaysAvg"), Call("CALCULATE", <<agg, InWindow(self, "Date30DaysAgo")>>)),
          Var(V("Previous30DaysAvg"),
              Call("CALCULATE", <<agg, InWindow(self, "Date60DaysAgo"), Before(self, "Date30DaysAgo")>>)),
          Var(V("Trend"),
              If(Call("NOT", <<Call("ISBLANK", <<R("Previous30DaysAvg")>>)>>),
                 Call("ROUND", <<Bin("-", R("Last30DaysAvg"), R("Previous30DaysAvg")), Num(2)>>),
                 Call("BLANK", <<>>))),
          Var(V("TrendPct"),
              If(Bin("<>", R("Previous30DaysAvg"), Num(0)),
                 Call("ROUND", <<Bin("*", Call("DIVIDE", <<R("Trend"), R("Previous30DaysAvg"), Num(0)>>), Num(100)), Num(0)>>),
                 Num(0))),
          Var(V("TrendIcon"),
              If(Bin(">", R("Trend"), Num(0)), Str("U+2197"),
                 If(Bin("<", R("Trend"), Num(0)), Str("U+2198"), Str("U+2192")))),
          Var(V("TrendColor"),
              If(Bin(">", R("Trend"), Num(0)), Str(self.theme.success),
                 If(Bin("<", R("Trend"), Num(0)), Str(self.theme.danger), Str(self.theme.neutral)))),
          Var(V("ResponsesLast30"),
              Call("CALCULATE", <<Call("COUNTROWS", <<Tbl(self.table)>>), InWindow(self, "Date30DaysAgo")>>)),
          Var(V("ResponsesPrev30"),
              Call("CALCULATE", <<Call("COUNTROWS", <<Tbl(self.table)>>), InWindow(self, "Date60DaysAgo"),
                                  Before(self, "Date30DaysAgo")>>)),
          Var(V("ResponseVelocity"),
              If(Bin("<>", R("ResponsesPrev30"), Num(0)),
                 Call("ROUND", <<Bin("*", Call("DIVIDE", <<Bin("-", R("ResponsesLast30"), R("ResponsesPrev30")),
                                                          R("ResponsesPrev30"), Num(0)>>), Num(100)), Num(0)>>),
                 Call("BLANK", <<>>)))>>
    ELSE <<>>

Measure(name) == Node("col", <<>>, ColumnReference(<<name>>), 0)

PerformanceBindings(self) ==
    LET cat_col == self.categorical_columns[1]
        first_metric == self.metrics[1]
        top(n, dir) == Call("TOPN", <<Num(n), R("PerformanceSummary"), Measure("AvgScore"), Kw(dir)>>)
        text(rows, dir) ==
            Call("CONCATENATEX",
                 <<R(rows),
                   Amp(<<Col(self.table, cat_col), Str(" ("), Call("ROUND", <<Measure("AvgScore"), Num(1)>>), Str(")")>>),
                   Str(", "), Measure("AvgScore"), Kw(dir)>>)
    IN
    <<Var(V("PerformanceSummary"),
          Call("SUMMARIZE", <<Tbl(self.table), Col(self.table, cat_col),
                              Str("AvgScore"), Call(first_metric.aggregation, <<Col(self.table, first_metric.column)>>),
                              Str("RecordCount"), Call("COUNTROWS", <<Tbl(self.table)>>)>>)),
      Var(V("TopPerformer"), top(1, "DESC")),
      Var(V("BottomPerformer"), top(1, "ASC")),
      Var(V("TopPerformerName"), Call("MAXX", <<R("TopPerformer"), Col(self.table, cat_col)>>)),
      Var(V("TopPerformerScore"), Call("ROUND", <<Call("MAXX", <<R("TopPerformer"), Measure("AvgScore")>>), Num(2)>>)),
      Var(V("TopPerformerCount"), Call("MAXX", <<R("TopPerformer"), Measure("RecordCount")>>)),
      Var(V("BottomPerformerName"), Call("MAXX", <<R("BottomPerformer"), Col(self.table, cat_col)>>)),
      Var(V("BottomPerformerScore"), Call("ROUND", <<Call("MAXX", <<R("BottomPerformer"), Measure("AvgScore")>>), Num(2)>>)),
      Var(V("BottomPerformerCount"), Call("MAXX", <<R("BottomPerformer"), Measure("RecordCount")>>)),
      Var(V("Top3Performers"), top(3, "DESC")),
      Var(V("Bottom3Performers"), top(3, "ASC")),
      Var(V("Top3Text"), text("Top3Performers", "DESC")),
      Var(V("Bottom3Text"), text("Bottom3Performers", "ASC"))>>

TextBindings(self) ==
    LET text_col == self.text_columns[1].name
        score_col == self.text_columns[1].score
        qualifying ==
            Call("FILTER", <<Tbl(self.table),
                Bin("&&", Call("NOT", <<Call("ISBLANK", <<Col(self.table, text_col)>>)>>),
                          Bin(">", Call("LEN", <<Col(self.table, text_col)>>), Num(10)))>>)
        comments(dir) == Call("TOPN", <<Num(5), qualifying, Col(self.table, score_col), Kw(dir)>>)
        html(rows, token, icon, dir) ==
            Call("CONCATENATEX",
                 <<R(rows),
                   Amp(<<Txt(token), Txt(token), Txt(icon),
                         Call("ROUND", <<Col(self.table, score_col), Num(1)>>),
                         Col(self.table, text_col)>>),
                   Str(""), Col(self.table, score_col), Kw(dir)>>)
    IN
    <<Var(V("PositiveComments"), comments("DESC")),
      Var(V("NegativeComments"), comments("ASC")),
      Var(V("PositiveHTML"),
          html("PositiveComments", self.theme.success, IconOf(self, "positive", "U+1F49A"), "DESC")),
      Var(V("NegativeHTML"),
          html("NegativeComments", self.theme.danger, IconOf(self, "negative", "U+1F534"), "ASC")),
      Var(V("PositiveCount"), Call("COUNTROWS", <<R("PositiveComments")>>)),
      Var(V("NegativeCount"), Call("COUNTROWS", <<R("NegativeComments")>>))>>

_generate_variables_unguarded_text(self) ==
    IF (self.categorical_columns # <<>> /\ self.metrics = <<>>) \/ self.text_columns = <<>> THEN IndexError
    ELSE Fragment("variables",
            CoreBindings(self) \o DateBindings(self) \o MetricBindings(self) \o TrendBindings(self)
                \o (IF self.categorical_columns # <<>> THEN PerformanceBindings(self) ELSE <<>>)
                \o TextBindings(self),
            <<>>)

_generate_variables_trend_first(self) ==
    IF self.categorical_columns # <<>> /\ self.metrics = <<>> THEN IndexError
    ELSE Fragment("variables",
            CoreBindings(self) \o DateBindings(self) \o TrendBindings(self) \o MetricBindings(self)
                \o (IF self.categorical_columns # <<>> THEN PerformanceBindings(self) ELSE <<>>)
                \o (IF self.text_columns # <<>> THEN TextBindings(self) ELSE <<>>),
            <<>>)

_generate_variables_summary_last(self) ==
    IF self.categorical_columns # <<>> /\ self.metrics = <<>> THEN IndexError
    ELSE Fragment("variables",
            CoreBindings(self) \o DateBindings(self) \o MetricBindings(self) \o TrendBindings(self)
                \o (IF self.categorical_columns # <<>>
                    THEN Tail(PerformanceBindings(self)) \o <<Head(PerformanceBindings(self))>> ELSE <<>>)
                \o (IF self.text_columns # <<>> THEN TextBindings(self) ELSE <<>>),
            <<>>)

_generate_variables(self) ==
    IF self.categorical_columns # <<>> /\ self.metrics = <<>> THEN IndexError
    ELSE Fragment("variables",
            CoreBindings(self) \o DateBindings(self) \o MetricBindings(self) \o TrendBindings(self)
                \o (IF self.categorical_columns # <<>> THEN PerformanceBindings(self) ELSE <<>>)
                \o (IF self.text_columns # <<>> THEN TextBindings(self) ELSE <<>>),
            <<>>)

_generate_html_start(self) ==
    Fragment("html_start", <<Var(V("HtmlContent"), Txt(self.theme.background))>>, <<>>)

_generate_executive_header(self) ==
    Fragment("header", <<>>,
        <<Txt(self.theme.primary), Txt(self.theme.secondary), Txt(IconOf(self, "metrics", "U+1F4CA")),
          R("TotalResponses")>>
        \o (IF self.date_col # NoDateColumn THEN <<R("MinDate"), R("MaxDate")>> ELSE <<Txt("All Time")>>))

KpiCard(self, m) ==
    LET var_name == NoSpaces(m.name)
    IN  <<Ref(Suffixed(var_name, "_Color")), Txt(self.theme.neutral), Name(m.name),
          Ref(Suffixed(var_name, "_Color")), Ref(var_name), Txt(self.theme.neutral),
          Ref(Suffixed(var_name, "_Color")), Ref(Suffixed(var_name, "_Status"))>>

Min(a, b) == IF a < b THEN a ELSE b

_generate_kpi_cards(self) ==
    Fragment("kpi_cards", <<>>,
        <<Txt(IconOf(self, "metrics", "U+1F4C8")), Num(Min(Len(self.metrics), 4))>>
        \o Concat([i \in 1..Len(self.metrics) |-> KpiCard(self, self.metrics[i])]))

Signed(name) == If(Bin(">", R(name), Num(0)), Str("+"), Str(""))

_generate_trend_section(self) ==
    Fragment("trend_analysis", <<>>,
        <<Txt(self.theme.light_primary), Txt(self.theme.primary), Txt(self.theme.primary),
          Txt(IconOf(self, "trend", "U+1F4C8")), Txt(self.theme.neutral), Txt(self.theme.primary),
          Call("ROUND", <<R("Last30DaysAvg"), Num(2)>>), Txt(self.theme.neutral),
          Call("ROUND", <<R("Previous30DaysAvg"), Num(2)>>), Txt(self.theme.neutral),
          R("TrendColor"), R("TrendIcon"), Signed("Trend"), R("Trend"), Signed("TrendPct"), R("TrendPct")>>)

_generate_performance_table(self) ==
    IF self.categorical_columns = <<>> THEN IndexError
    ELSE
    LET cat_col == self.categorical_columns[1]
    IN  Fragment("performance_table", <<>>,
            <<Txt(IconOf(self, "analysis", "U+1F4CB")), Txt(cat_col), Txt(self.theme.background),
              Txt(self.theme.neutral), Txt(cat_col),
              Call("CONCATENATEX",
                   <<Call("TOPN", <<Num(10), R("PerformanceSummary"), Measure("AvgScore"), Kw("DESC")>>),
                     Amp(<<Col(self.table, cat_col), Txt(self.theme.primary),
                           Call("ROUND", <<Measure("AvgScore"), Num(2)>>), Txt(self.theme.neutral),
                           Measure("RecordCount")>>),
                     Str(""), Measure("AvgScore"), Kw("DESC")>>)>>)

_generate_top_bottom(self) ==
    Fragment("top_bottom", <<>>,
        <<Txt(self.theme.light_success), Txt(self.theme.success), Txt(self.theme.success),
          Txt(IconOf(self, "performance", "U+1F3C6")), R("TopPerformerName"), Txt(self.theme.neutral),
          Txt(self.theme.success), R("TopPerformerScore"), R("TopPerformerCount"), R("Top3Text"),
          Txt(self.theme.light_danger), Txt(self.theme.danger), Txt(self.theme.danger),
          Txt(IconOf(self, "warning", "U+26A0")), R("BottomPerformerName"), Txt(self.theme.neutral),
          Txt(self.theme.danger), R("BottomPerformerScore"), R("BottomPerformerCount"), R("Bottom3Text")>>)

_generate_action_dashboard(self) ==
    LET first_metric == IF self.metrics # <<>> THEN self.metrics[1].name ELSE <<"Score">>
        var_name == NoSpaces(first_metric)
        low == Bin("<", Ref(var_name), Num(7))
        bottom_low == Bin("&&", Bin("<", R("BottomPerformerScore"), Num(7)),
                                Call("NOT", <<Call("ISBLANK", <<R("BottomPerformerScore")>>)>>))
    IN  Fragment("action_dashboard", <<>>,
            <<Txt(self.theme.light_warning), Txt(self.theme.warning), Txt(IconOf(self, "warning", "U+1F6A8")),
              If(Bin("||", low, bottom_low),
                 Amp(<<Txt(self.theme.light_danger), Txt(self.theme.danger),
                       Txt(IconOf(self, "warning", "U+1F534")),
                       If(low, Name(first_metric), Str("")),
                       If(bottom_low, Amp(<<R("BottomPerformerName"), R("BottomPerformerScore")>>), Str(""))>>),
                 Str("")),
              Txt(IconOf(self, "warning", "U+1F7E1")), Txt(self.theme.light_success),
              Txt(IconOf(self, "positive", "U+1F7E2")), R("TopPerformerName"), R("TopPerformerScore")>>)

_generate_positive_verbatim(self) ==
    Fragment("positive_verbatim", <<>>,
        <<Txt(self.theme.light_success), Txt(self.theme.success), Txt(self.theme.success),
          Txt(IconOf(self, "positive", "U+1F49A")), R("PositiveCount"), R("PositiveHTML")>>)

_generate_negative_verbatim(self) ==
    Fragment("negative_verbatim", <<>>,
        <<Txt(self.theme.light_danger), Txt(self.theme.danger), Txt(self.theme.danger),
          Txt(IconOf(self, "negative", "U+1F534")), R("NegativeCount"), R("NegativeHTML")>>)

_generate_theme_analysis_every_column(self) ==
    IF self.text_columns = <<>> THEN IndexError
    ELSE Fragment("theme_analysis", <<>>,
            <<Txt(IconOf(self, "analysis", "U+1F50D"))>>
            \o [k \in 1..Len(self.text_columns) |-> Col(self.table, self.text_columns[k].name)])

_generate_theme_analysis(self) ==
    IF self.text_columns = <<>> THEN IndexError
    ELSE Fragment("theme_analysis", <<>>, <<Txt(IconOf(self, "analysis", "U+1F50D"))>>)

Bucket(self, predicate) ==
    Call("CALCULATE", <<Call("COUNTROWS", <<Tbl(self.table)>>), predicate>>)

_generate_distribution_closed_buckets(self) ==
    IF self.metrics = <<>> THEN IndexError
    ELSE
    LET first_metric == self.metrics[1]
        c == Col(self.table, first_metric.column)
        cell(token) == <<Txt(self.theme.background), Txt(token)>>
    IN  Fragment("distribution", <<>>,
            <<Txt(IconOf(self, "metrics", "U+1F4CA"))>>
            \o cell(self.theme.success)
            \o <<Bucket(self, Bin(">=", c, Num(9))), Txt(self.theme.neutral)>>
            \o cell(self.theme.primary)
            \o <<Bucket(self, Bin("&&", Bin(">=", c, Num(7)), Bin("<=", c, Num(9)))), Txt(self.theme.neutral)>>
            \o cell(self.theme.warning)
            \o <<Bucket(self, Bin("&&", Bin(">=", c, Num(5)), Bin("<=", c, Num(7)))), Txt(self.theme.neutral)>>
            \o cell(self.theme.danger)
            \o <<Bucket(self, Bin("<", c, Num(5))), Txt(self.theme.neutral)>>
            \o cell(self.theme.neutral)
            \o <<R("TotalResponses"), Txt(self.theme.neutral)>>)

_generate_distribution(self) ==
    IF self.metrics = <<>> THEN IndexError
    ELSE
    LET first_metric == self.metrics[1]
        c == Col(self.table, first_metric.column)
        cell(token) == <<Txt(self.theme.background), Txt(token)>>
    IN  Fragment("distribution", <<>>,
            <<Txt(IconOf(self, "metrics", "U+1F4CA"))>>
            \o cell(self.theme.success)
            \o <<Bucket(self, Bin(">=", c, Num(9))), Txt(self.theme.neutral)>>
            \o cell(self.theme.primary)
            \o <<Bucket(self, Bin("&&", Bin(">=", c, Num(7)), Bin("<", c, Num(9)))), Txt(self.theme.neutral)>>
            \o cell(self.theme.warning)
            \o <<Bucket(self, Bin("&&", Bin(">=", c, Num(5)), Bin("<", c, Num(7)))), Txt(self.theme.neutral)>>
            \o cell(self.theme.danger)
            \o <<Bucket(self, Bin("<", c, Num(5))), Txt(self.theme.neutral)>>
            \o cell(self.theme.neutral)
            \o <<R("TotalResponses"), Txt(self.theme.neutral)>>)

_generate_velocity(self) ==
    LET sign(pos, neg, zero) ==
            If(Bin(">", R("ResponseVelocity"), Num(0)), pos,
               If(Bin("<", R("ResponseVelocity"), Num(0)), neg, zero))
    IN  Fragment("velocity", <<>>,
            <<Txt(self.theme.light_primary), Txt(self.theme.primary), Txt(self.theme.primary),
              Txt(IconOf(self, "trend", "U+26A1")), Txt(self.theme.neutral), Txt(self.theme.primary),
              R("ResponsesLast30"), Txt(self.theme.neutral), Txt(self.theme.neutral),
              sign(Str(self.theme.success), Str(self.theme.danger), Str(self.theme.neutral)),
              Signed("ResponseVelocity"), R("ResponseVelocity"), Txt(self.theme.neutral),
              sign(Str("increase"), Str("decrease"), Str("flat"))>>)

_generate_footer(self) ==
    Fragment("footer", <<>>, <<Call("TODAY", <<>>)>>)

_generate_html_end(self) ==
    Fragment("html_end", <<>>, <<R("HtmlContent")>>)

(***************************************************************************)
(* generate_dax.  The outcome of a call is the artifact, the sequence of   *)
(* fragments joined by the separator, or the exception raised.             *)
(***************************************************************************)
\* if "<id>" in self.enabled_sections [and <capability>]: sections.append(...)
Optional_ungated(self, id, capable, fragment) ==
    IF In(id, self.enabled_sections) THEN <<fragment>> ELSE <<>>

Optional(self, id, capable, fragment) ==
    IF In(id, self.enabled_sections) /\ capable THEN <<fragment>> ELSE <<>>

\* filter(None, sections): the fragments that are not the empty string.
NonEmpty(sections) == SelectSeq(sections, LAMBDA f : f.kind # "")
\* "\n\n".join(fragments): the separators it puts between the fragments.
Separators(fragments) == [k \in 1..(Len(fragments) - 1) |-> "\n\n"]

Outcome_without_footer(sections) ==
    IF \E i \in 1..Len(sections) : sections[i].kind = "IndexError"
    THEN [status |-> "IndexError", fragments |-> <<>>, separators |-> <<>>]
    ELSE LET kept == SelectSeq(sections, LAMBDA f : f.kind \notin {"", "footer"})
         IN  [status |-> "ok", fragments |-> kept, separators |-> Separators(kept)]

Outcome(sections) ==
    IF \E i \in 1..Len(sections) : sections[i].kind = "IndexError"
    THEN [status |-> "IndexError", fragments |-> <<>>, separators |-> <<>>]
    ELSE [status |-> "ok", fragments |-> NonEmpty(sections), separators |-> Separators(NonEmpty(sections))]

generate_dax_request_order(self) ==
    LET asked(id) ==
            CASE id = "header" -> <<_generate_executive_header(self)>>
              [] id = "kpi_cards" -> <<_generate_kpi_cards(self)>>
              [] id = "trend_analysis" /\ self.date_col # NoDateColumn -> <<_generate_trend_section(self)>>
              [] id = "performance_table" /\ self.categorical_columns # <<>> -> <<_generate_performance_table(self)>>
              [] id = "top_bottom" /\ self.categorical_columns # <<>> -> <<_generate_top_bottom(self)>>
              [] id = "action_dashboard" -> <<_generate_action_dashboard(self)>>
              [] id = "positive_verbatim" /\ self.text_columns # <<>> -> <<_generate_positive_verbatim(self)>>
              [] id = "negative_verbatim" /\ self.text_columns # <<>> -> <<_generate_negative_verbatim(self)>>
              [] id = "theme_analysis" /\ self.text_columns # <<>> -> <<_generate_theme_analysis(self)>>
              [] id = "distribution" -> <<_generate_distribution(self)>>
              [] id = "velocity" /\ self.date_col # NoDateColumn -> <<_generate_velocity(self)>>
              [] OTHER -> <<>>
    IN  Outcome(
            <<_generate_header(self), _generate_variables(self), _generate_html_start(self)>>
            \o Concat([k \in 1..Len(self.enabled_sections) |-> asked(self.enabled_sections[k])])
            \o <<_generate_footer(self), _generate_html_end(self)>>)

generate_dax(self) ==
    Outcome(
        <<_generate_header(self), _generate_variables(self), _generate_html_start(self)>>
        \o Optional(self, "header", TRUE, _generate_executive_header(self))
        \o Optional(self, "kpi_cards", TRUE, _generate_kpi_cards(self))
        \o Optional(self, "trend_analysis", self.date_col # NoDateColumn, _generate_trend_section(self))
        \o Optional(self, "performance_table", self.categorical_columns # <<>>, _generate_performance_table(self))
        \o Optional(self, "top_bottom", self.categorical_columns # <<>>, _generate_top_bottom(self))
        \o Optional(self, "action_dashboard", TRUE, _generate_action_dashboard(self))
        \o Optional(self, "positive_verbatim", self.text_columns # <<>>, _generate_positive_verbatim(self))
        \o Optional(self, "negative_verbatim", self.text_columns # <<>>, _generate_negative_verbatim(self))
        \o Optional(self, "theme_analysis", self.text_columns # <<>>, _generate_theme_analysis(self))
        \o Optional(self, "distribution", TRUE, _generate_distribution(self))
        \o Optional(self, "velocity", self.date_col # NoDateColumn, _generate_velocity(self))
        \o <<_generate_footer(self), _generate_html_end(self)>>)

invoke_generate_dax_consuming(self) ==
    [returned |-> generate_dax(self), self |-> [self EXCEPT !.enabled_sections = <<>>], module |-> module]

invoke_generate_dax_registering(self) ==
    [returned |-> generate_dax(self), self |-> self,
     module |-> [module EXCEPT !.AVAILABLE_SECTIONS =
                    SelectSeq(@, LAMBDA section : In(section.id, self.enabled_sections))]]

\* A call of generate_dax: what it returns, and the generator and the
\* module-level objects as it leaves them.
invoke_generate_dax(self) == [returned |-> generate_dax(self), self |-> self, module |-> module]

(***************************************************************************)
(* The generator as a state machine: construction, the assignments and     *)
(* calls a caller makes (as main does on Generate), and generate_dax.      *)
(* outs[i] holds what the calls of generate_dax on generator i returned    *)
(* since the generator was last configured.                                *)
(***************************************************************************)
Tables == {"Survey"}
DateColumns == {NoDateColumn, "Date"}
MetricNames == {<<"CSAT">>, <<"Net", " ", "Score">>}
Columns == {"Score"}
Aggregations == {"AVERAGE"}
Decimals == {2}
ThresholdDicts ==
    { <<>>,
      <<[name |-> <<"CSAT">>, config |-> CsatThreshold]>>,
      <<[name |-> <<"CSAT">>, config |-> CsatThreshold],
        [name |-> <<"Net", " ", "Score">>, config |-> RangeThreshold]>> }
CategoricalLists == { <<>>, <<"Region">>, <<"Region", "Team">> }
TextDicts == { <<>>, <<[name |-> "Comment", score |-> "Score"]>> }
IconDicts == { <<>>, <<[name |-> "metrics", icon |-> "U+1F3AF"], [name |-> "warning", icon |-> "U+1F6A9"]>> }
SectionIds == {AVAILABLE_SECTIONS[k].id : k \in 1..Len(AVAILABLE_SECTIONS)}
\* What a caller may ask for: registry ids and an id the registry lacks.
RequestableIds == SectionIds \cup {"summary"}
SectionLists ==
    {<<id>> : id \in RequestableIds}
        \cup { <<>>, [k \in 1..Len(AVAILABLE_SECTIONS) |-> AVAILABLE_SECTIONS[k].id] }

Idle == thr = CsatThreshold /\ val = BlankV /\ colour = NotBuilt /\ status = NotBuilt
NotEvaluated == bound = NoBindings

Init ==
    /\ \E t \in Tables, d \in DateColumns, n \in ThemeChoices :
            gens = [i \in {1} |-> DAXGenerator(t, d, THEMES[n])]
    /\ outs = [i \in {1} |-> <<>>]
    /\ Idle
    /\ data = IdleData
    /\ NotEvaluated
    /\ Imported
    /\ NoWizard
    /\ NoCallRunning
    /\ NothingQuoted

Configure(i, generator) ==
    /\ gens' = [gens EXCEPT ![i] = generator]
    /\ outs' = [outs EXCEPT ![i] = <<>>]
    /\ UNCHANGED <<thresholdVars, evalVars, wizardVars, moduleVars, callVars, quoteVars>>

AddMetric(i, name, column, aggregation, format_decimals) ==
    /\ name \in Keys(gens[i].metrics) \/ Len(gens[i].metrics) < MaxMetrics
    /\ Configure(i, add_metric(gens[i], name, column, aggregation, format_decimals))

SetThresholds(i, thresholds) ==
    Configure(i, [gens[i] EXCEPT !.thresholds = thresholds])

SetCategorical(i, columns) ==
    Configure(i, [gens[i] EXCEPT !.categorical_columns = columns])

SetText(i, mapping) ==
    Configure(i, [gens[i] EXCEPT !.text_columns = mapping])

SetEnabledSections(i, list) ==
    Configure(i, [gens[i] EXCEPT !.enabled_sections = list])

SetIcons(i, icons) ==
    Configure(i, [gens[i] EXCEPT !.icons = icons])

RequestSection(i, id) ==
    /\ Len(gens[i].enabled_sections) < MaxRequested
    /\ Configure(i, [gens[i] EXCEPT !.enabled_sections = Append(@, id)])

GenerateDax(i) ==
    LET call == invoke_generate_dax(gens[i])
    IN  /\ gens' = [gens EXCEPT ![i] = call.self]
        /\ outs' = [outs EXCEPT ![i] = <<call.returned>>]
        /\ module' = call.module
        /\ UNCHANGED <<thresholdVars, evalVars, wizardVars, callVars, quoteVars>>

GenerateDaxAgain(i) ==
    LET call == invoke_generate_dax(gens[i])
    IN  /\ outs[i] # <<>>
        /\ Len(outs[i]) < MaxCalls
        /\ gens' = [gens EXCEPT ![i] = call.self]
        /\ outs' = [outs EXCEPT ![i] = Append(@, call.returned)]
        /\ module' = call.module
        /\ UNCHANGED <<thresholdVars, evalVars, wizardVars, callVars, quoteVars>>

Next ==
    \/ \E n \in MetricNames, c \in Columns, a \in Aggregations, f \in Decimals : AddMetric(1, n, c, a, f)
    \/ \E t \in ThresholdDicts : SetThresholds(1, t)
    \/ \E c \in CategoricalLists : SetCategorical(1, c)
    \/ \E m \in TextDicts : SetText(1, m)
    \/ \E s \in SectionLists : SetEnabledSections(1, s)
    \/ \E d \in IconDicts : SetIcons(1, d)
    \/ GenerateDax(1)

Spec == Init /\ [][Next]_vars

\* Requests of any ids in any order, for each combination of capabilities.
InitSections ==
    /\ \E d \in DateColumns : gens = [i \in {1} |-> DAXGenerator("Survey", d, THEMES["Corporate Blue"])]
    /\ outs = [i \in {1} |-> <<>>]
    /\ Idle
    /\ data = IdleData
    /\ NotEvaluated
    /\ Imported
    /\ NoWizard
    /\ NoCallRunning
    /\ NothingQuoted

NextSections ==
    \/ AddMetric(1, <<"CSAT">>, "Score", "AVERAGE", 2)
    \/ SetCategorical(1, <<"Region">>)
    \/ SetText(1, <<[name |-> "Comment", score |-> "Score"]>>)
    \/ \E id \in RequestableIds : RequestSection(1, id)
    \/ GenerateDax(1)

SpecSections == InitSections /\ [][NextSections]_vars

\* Two generators, built separately and each called more than once.
PairSectionLists == { <<"kpi_cards">>, <<"velocity", "header">> }

InitPair ==
    /\ \E d \in [{1, 2} -> DateColumns] :
            gens = [i \in {1, 2} |-> DAXGenerator("Survey", d[i], THEMES["Corporate Blue"])]
    /\ outs = [i \in {1, 2} |-> <<>>]
    /\ Idle
    /\ data = IdleData
    /\ NotEvaluated
    /\ Imported
    /\ NoWizard
    /\ NoCallRunning
    /\ NothingQuoted

NextPair ==
    \E i \in {1, 2} :
        \/ AddMetric(i, <<"CSAT">>, "Score", "AVERAGE", 2)
        \/ \E s \in PairSectionLists : SetEnabledSections(i, s)
        \/ GenerateDax(i)
        \/ GenerateDaxAgain(i)

SpecPair == InitPair /\ [][NextPair]_vars

\* Table and column names with spaces and with the delimiters in them.
TableNames == {"Survey", "Survey Data", "O'Brien"}
DateColumnNames == {NoDateColumn, "Date", "Close]Date"}
ColumnNames == {"Score", "Net Score", "a]b"}
CategoricalNames == {<<"Region">>, <<"Sales Region", "[Team]">>}

InitNames ==
    /\ \E t \in TableNames, d \in DateColumnNames :
            gens = [i \in {1} |-> DAXGenerator(t, d, THEMES["Corporate Blue"])]
    /\ outs = [i \in {1} |-> <<>>]
    /\ Idle
    /\ data = IdleData
    /\ NotEvaluated
    /\ Imported
    /\ NoWizard
    /\ NoCallRunning
    /\ NothingQuoted

NextNames ==
    \/ \E c \in ColumnNames : AddMetric(1, <<"CSAT">>, c, "AVERAGE", 2)
    \/ \E c \in CategoricalNames : SetCategorical(1, c)
    \/ \E c \in ColumnNames : SetText(1, <<[name |-> "Comment", score |-> c]>>)
    \/ SetEnabledSections(1, [k \in 1..Len(AVAILABLE_SECTIONS) |-> AVAILABLE_SECTIONS[k].id])
    \/ GenerateDax(1)

SpecNames == InitNames /\ [][NextNames]_vars

\* The binding block for metrics that differ in column and aggregation, and
\* whose names meet once the spaces are removed ("Net Score", "NetScore") or
\* are the name of a binding the block declares itself ("Trend").  A name is
\* its words and spaces in order, so "NetScore" is <<"Net", "Score">>.
BindingMetrics ==
    { [name |-> <<"CSAT">>, column |-> "Score", aggregation |-> "AVERAGE", format |-> 2],
      [name |-> <<"CSAT">>, column |-> "Rating", aggregation |-> "SUM", format |-> 1],
      [name |-> <<"Net", " ", "Score">>, column |-> "Rating", aggregation |-> "SUM", format |-> 1],
      [name |-> <<"Net", "Score">>, column |-> "Score", aggregation |-> "AVERAGE", format |-> 2],
      [name |-> <<"Trend">>, column |-> "Rating", aggregation |-> "MAX", format |-> 0] }
BindingThresholds == { <<>>, <<[name |-> <<"CSAT">>, config |-> CsatThreshold]>> }
BindingTexts ==
    { <<>>,
      <<[name |-> "Comment", score |-> "Score"]>>,
      <<[name |-> "Comment", score |-> "Score"], [name |-> "Reason", score |-> "Rating"]>> }
BindingSections == { <<>>, [k \in 1..Len(AVAILABLE_SECTIONS) |-> AVAILABLE_SECTIONS[k].id] }

InitBindings ==
    /\ \E d \in DateColumns : gens = [i \in {1} |-> DAXGenerator("Survey", d, THEMES["Corporate Blue"])]
    /\ outs = [i \in {1} |-> <<>>]
    /\ Idle
    /\ data = IdleData
    /\ NotEvaluated
    /\ Imported
    /\ NoWizard
    /\ NoCallRunning
    /\ NothingQuoted

NextBindings ==
    \/ \E m \in BindingMetrics : AddMetric(1, m.name, m.column, m.aggregation, m.format)
    \/ \E t \in BindingThresholds : SetThresholds(1, t)
    \/ \E c \in CategoricalLists : SetCategorical(1, c)
    \/ \E m \in BindingTexts : SetText(1, m)
    \/ \E s \in BindingSections : SetEnabledSections(1, s)
    \/ GenerateDax(1)

SpecBindings == InitBindings /\ [][NextBindings]_vars

\* Two generators configured separately, with categorical columns and text
\* mappings that share their first entry or not.
VariantCategoricals == { <<>>, <<"Region">>, <<"Region", "Team">>, <<"Team", "Region">> }

InitVariants ==
    /\ \E d \in DateColumns :
            gens = [i \in {1, 2} |-> DAXGenerator("Survey", d, THEMES["Corporate Blue"])]
    /\ outs = [i \in {1, 2} |-> <<>>]
    /\ Idle
    /\ data = IdleData
    /\ NotEvaluated
    /\ Imported
    /\ NoWizard
    /\ NoCallRunning
    /\ NothingQuoted

NextVariants ==
    \E i \in {1, 2} :
        \/ AddMetric(i, <<"CSAT">>, "Score", "AVERAGE", 2)
        \/ \E c \in VariantCategoricals : SetCategorical(i, c)
        \/ \E m \in BindingTexts : SetText(i, m)
        \/ \E s \in BindingSections : SetEnabledSections(i, s)
        \/ GenerateDax(i)

SpecVariants == InitVariants /\ [][NextVariants]_vars

(***************************************************************************)
(* The quoting templates on their own: a name, of any characters, quoted   *)
(* and the result quoted again.                                            *)
(***************************************************************************)
Characters == {"a", "]", "'"}
RawNames == UNION {[1..k -> Characters] : k \in 0..MaxLen}

InitQuote ==
    /\ \E kind \in {"column", "table"}, name \in RawNames :
            quoted = [kind |-> kind, name |-> name, results |-> <<>>]
    /\ gens = NoGenerators
    /\ outs = NoGenerators
    /\ Idle
    /\ data = IdleData
    /\ NotEvaluated
    /\ Imported
    /\ NoWizard
    /\ NoCallRunning

QuotingInput ==
    IF quoted.results = <<>> THEN quoted.name ELSE quoted.results[Len(quoted.results)]

QuoteColumn ==
    /\ quoted.kind = "column"
    /\ Len(quoted.results) < MaxQuotings
    /\ quoted' = [quoted EXCEPT !.results = Append(@, ColumnReference(QuotingInput))]
    /\ UNCHANGED <<genVars, thresholdVars, evalVars, wizardVars, moduleVars, callVars>>

QuoteTable ==
    /\ quoted.kind = "table"
    /\ Len(quoted.results) < MaxQuotings
    /\ quoted' = [quoted EXCEPT !.results = Append(@, TableReference(QuotingInput))]
    /\ UNCHANGED <<genVars, thresholdVars, evalVars, wizardVars, moduleVars, callVars>>

NextQuote == QuoteColumn \/ QuoteTable

SpecQuote == InitQuote /\ [][NextQuote]_vars

(***************************************************************************)
(* main: the wizard.  Streamlit runs main from top to bottom after every   *)
(* interaction, with the widgets holding the values the user left them     *)
(* with; session.widgets keeps those values between runs.  A DataFrame is  *)
(* what main reads of it: its columns by the class main puts them in.      *)
(***************************************************************************)
DataFrame(numeric_cols, categorical_cols, text_cols, date_columns) ==
    [numeric_cols |-> numeric_cols, categorical_cols |-> categorical_cols,
     text_cols |-> text_cols, date_columns |-> date_columns,
     columns |-> date_columns \o numeric_cols \o categorical_cols]

DataFrames ==
    { DataFrame(<<"Score">>, <<"Region">>, <<>>, <<"Date">>),
      DataFrame(<<>>, <<"Comment">>, <<"Comment">>, <<>>) }

Elements(list) == {list[k] : k \in 1..Len(list)}
Sub(list, chosen) == SelectSeq(list, LAMBDA x : x \in chosen)
Prefix(list, n) == SubSeq(list, 1, Min(Len(list), n))

\* The options of the date selectbox.
DateOptions(df) ==
    IF df.date_columns # <<>> THEN Elements(df.date_columns)
    ELSE {NoDateColumn} \cup Elements(df.columns)
\* The thresholds a user enters for a metric.
ThresholdChoices == {CsatThreshold, RangeThreshold}
\* The section checkboxes a user changes.
ToggledSections == {"kpi_cards", "distribution"}

\* What the widgets show when a file has just been uploaded.
DefaultWidgets(df) ==
    [uploaded_file |-> Present(df),
     table_name |-> "YourTable",
     date_col |-> IF df.date_columns # <<>> THEN df.date_columns[1] ELSE NoDateColumn,
     selected_metrics |-> Elements(Prefix(df.numeric_cols, 3)),
     selected_categorical |-> Elements(Prefix(df.categorical_cols, 2)),
     selected_text |-> Elements(Prefix(df.text_cols, 1)),
     threshold |-> CsatThreshold,
     checked |-> SectionIds]

RECURSIVE SetAll(_, _)
SetAll(dict, entries) ==
    IF entries = <<>> THEN dict ELSE SetAll(DictSet(dict, Head(entries)), Tail(entries))

RECURSIVE AddMetrics(_, _)
AddMetrics(generator, metric_configs) ==
    IF metric_configs = <<>> THEN generator
    ELSE LET metric_config == Head(metric_configs)
         IN  AddMetrics(add_metric(generator, metric_config.name, metric_config.column,
                                   metric_config.aggregation, metric_config.format),
                        Tail(metric_configs))

Get(entry, default) == IF entry.some THEN entry.v ELSE default

\* Tab 1, lines 690-772.
DataSetup(s, w) ==
    IF ~s.df.some THEN s
    ELSE LET df == s.df.v
             selected_metrics == Sub(df.numeric_cols, w.selected_metrics)
             selected_categorical == Sub(df.categorical_cols, w.selected_categorical)
             selected_text == Sub(df.text_cols, w.selected_text)
             text_score_mapping ==
                 [k \in 1..Len(selected_text) |->
                     [name |-> selected_text[k],
                      score |-> IF selected_metrics = <<>> THEN "None" ELSE selected_metrics[1]]]
         IN  [s EXCEPT
                !.text_score_mapping = IF selected_text # <<>> THEN Present(text_score_mapping) ELSE @,
                !.config = Present([table_name |-> w.table_name, date_col |-> w.date_col,
                                    metrics |-> selected_metrics,
                                    categorical |-> selected_categorical,
                                    text |-> selected_text])]

\* Tab 2, lines 777-980.
MetricsAndThresholds(s, w) ==
    IF s.config.some /\ s.config.v.metrics # <<>> THEN
        LET metrics == s.config.v.metrics
            threshold_config(metric_col) == [w.threshold EXCEPT !.metric_name = <<metric_col>>]
            metric_configs ==
                [k \in 1..Len(metrics) |->
                    [name |-> <<metrics[k]>>, column |-> metrics[k], aggregation |-> "AVERAGE",
                     format |-> 2, threshold |-> threshold_config(metrics[k])]]
        IN  [s EXCEPT
                !.thresholds = Present(SetAll(s.thresholds.v,
                                   [k \in 1..Len(metrics) |->
                                       [name |-> <<metrics[k]>>, config |-> threshold_config(metrics[k])]])),
                !.metric_configs = Present(metric_configs)]
    ELSE s

\* Tab 3, lines 985-1078.
DesignAndSections(s, w) ==
    IF ~s.config.some THEN s
    ELSE LET config == s.config.v
             has_categorical == Len(config.categorical) > 0
             has_text == Len(config.text) > 0
             has_date == config.date_col # NoDateColumn
             can_enable(section) ==
                 /\ ~(section.requires_categorical /\ ~has_categorical)
                 /\ ~(section.requires_text /\ ~has_text)
                 /\ ~(section.requires_date /\ ~has_date)
             ids == [k \in 1..Len(AVAILABLE_SECTIONS) |-> AVAILABLE_SECTIONS[k].id]
             enabled_sections ==
                 SelectSeq(ids, LAMBDA id :
                     /\ id \in w.checked
                     /\ \E k \in 1..Len(AVAILABLE_SECTIONS) :
                            AVAILABLE_SECTIONS[k].id = id /\ can_enable(AVAILABLE_SECTIONS[k]))
             selected_icons == [k \in 1..Len(ICONS) |-> [name |-> ICONS[k].name, icon |-> ICONS[k].icons[1]]]
         IN  [s EXCEPT !.icons = Present(selected_icons),
                       !.enabled_sections = Present(enabled_sections),
                       !.theme = Present(THEMES["Corporate Blue"])]

\* Tab 4, lines 1101-1126: the generator the Generate button builds.
Wired(s) ==
    LET config == s.config.v
        generator == AddMetrics(DAXGenerator(config.table_name, config.date_col, s.theme.v),
                                Get(s.metric_configs, <<>>))
    IN  [generator EXCEPT
            !.thresholds = Get(s.thresholds, <<>>),
            !.categorical_columns = config.categorical,
            !.text_columns = IF config.text # <<>> /\ s.text_score_mapping.some
                             THEN s.text_score_mapping.v ELSE @,
            !.enabled_sections = Get(s.enabled_sections, <<>>),
            !.icons = Get(s.icons, <<>>)]

\* One run of main, with the widgets as the user left them and the Generate
\* button pressed or not: lines 637-640, the upload, the four tabs in order.
\* Each step's result is bound once and handed to the next.
main(widgets, clicked) ==
    \E s0 \in {[session EXCEPT !.widgets = Present(widgets)]} :
    \E s1 \in {IF ~s0.thresholds.some THEN [s0 EXCEPT !.thresholds = Present(<<>>)] ELSE s0} :
    \E s2 \in {IF widgets.uploaded_file.some THEN [s1 EXCEPT !.df = widgets.uploaded_file] ELSE s1} :
    \E s3 \in {DataSetup(s2, widgets)} :
    \E s4 \in {MetricsAndThresholds(s3, widgets)} :
    \E s5 \in {DesignAndSections(s4, widgets)} :
        /\ IF s5.config.some /\ s5.theme.some /\ clicked THEN
               \E call \in {invoke_generate_dax(Wired(s5))} :
                   /\ session' = IF call.returned.status = "ok"
                                 THEN [s5 EXCEPT !.generated_dax = Present(call.returned)]
                                 ELSE s5
                   /\ gens' = <<call.self>>
                   /\ outs' = << <<call.returned>> >>
                   /\ module' = call.module
           ELSE
               /\ session' = s5
               /\ gens' = NoGenerators
               /\ outs' = NoGenerators
               /\ UNCHANGED module
        /\ UNCHANGED <<thresholdVars, evalVars, callVars, quoteVars>>

Upload(df) == main(DefaultWidgets(df), FALSE)

SelectMetrics(chosen) ==
    /\ session.df.some
    /\ chosen \subseteq Elements(session.df.v.numeric_cols)
    /\ main([session.widgets.v EXCEPT !.selected_metrics = chosen], FALSE)

SelectCategorical(chosen) ==
    /\ session.df.some
    /\ chosen \subseteq Elements(session.df.v.categorical_cols)
    /\ main([session.widgets.v EXCEPT !.selected_categorical = chosen], FALSE)

SelectText(chosen) ==
    /\ session.df.some
    /\ chosen \subseteq Elements(session.df.v.text_cols)
    /\ main([session.widgets.v EXCEPT !.selected_text = chosen], FALSE)

SelectDate(date_col) ==
    /\ session.df.some
    /\ date_col \in DateOptions(session.df.v)
    /\ main([session.widgets.v EXCEPT !.date_col = date_col], FALSE)

EnterThreshold(threshold) ==
    /\ session.config.some
    /\ session.config.v.metrics # <<>>
    /\ main([session.widgets.v EXCEPT !.threshold = threshold], FALSE)

ToggleSection(id) ==
    /\ session.config.some
    /\ main([session.widgets.v EXCEPT !.checked = IF id \in @ THEN @ \ {id} ELSE @ \cup {id}], FALSE)

ClickGenerate ==
    /\ session.config.some
    /\ session.theme.some
    /\ main(session.widgets.v, TRUE)

InitWizard ==
    /\ session = FreshSession
    /\ gens = NoGenerators
    /\ outs = NoGenerators
    /\ Idle
    /\ data = IdleData
    /\ NotEvaluated
    /\ Imported
    /\ NoCallRunning
    /\ NothingQuoted

NextWizard ==
    \/ \E df \in DataFrames : Upload(df)
    \/ \E chosen \in SUBSET {"Score"} : SelectMetrics(chosen)
    \/ \E chosen \in {{}, {"Region"}, {"Comment"}} : SelectCategorical(chosen)
    \/ \E chosen \in SUBSET {"Comment"} : SelectText(chosen)
    \/ \E date_col \in {NoDateColumn, "Date", "Comment"} : SelectDate(date_col)
    \/ \E threshold \in ThresholdChoices : EnterThreshold(threshold)
    \/ \E id \in ToggledSections : ToggleSection(id)
    \/ ClickGenerate

SpecWizard == InitWizard /\ [][NextWizard]_vars

(***************************************************************************)
(* generate_dax statement by statement, for calls that run at the same     *)
(* time (one per generator).  pc[i] is 0 before the call, k while the k-th *)
(* "if ... in self.enabled_sections" is next, and past the last of them    *)
(* before the extend-and-join and after the return.  sections is a local   *)
(* of the call: frames[Local(i)].                                          *)
(***************************************************************************)
SectionSteps(self) ==
    <<Optional(self, "header", TRUE, _generate_executive_header(self)),
      Optional(self, "kpi_cards", TRUE, _generate_kpi_cards(self)),
      Optional(self, "trend_analysis", self.date_col # NoDateColumn, _generate_trend_section(self)),
      Optional(self, "performance_table", self.categorical_columns # <<>>, _generate_performance_table(self)),
      Optional(self, "top_bottom", self.categorical_columns # <<>>, _generate_top_bottom(self)),
      Optional(self, "action_dashboard", TRUE, _generate_action_dashboard(self)),
      Optional(self, "positive_verbatim", self.text_columns # <<>>, _generate_positive_verbatim(self)),
      Optional(self, "negative_verbatim", self.text_columns # <<>>, _generate_negative_verbatim(self)),
      Optional(self, "theme_analysis", self.text_columns # <<>>, _generate_theme_analysis(self)),
      Optional(self, "distribution", TRUE, _generate_distribution(self)),
      Optional(self, "velocity", self.date_col # NoDateColumn, _generate_velocity(self))>>

LastStep(self) == Len(SectionSteps(self)) + 1
Returned(self) == LastStep(self) + 1

Local_shared(i) == 1

Local(i) == i

Raises(sections) == \E k \in 1..Len(sections) : sections[k].kind = "IndexError"

\* The call goes on with its list, or ends here with the exception.
Proceed(i, sections, next) ==
    /\ frames' = [frames EXCEPT ![Local(i)] = sections]
    /\ IF Raises(sections)
       THEN /\ pc' = [pc EXCEPT ![i] = Returned(gens[i])]
            /\ outs' = [outs EXCEPT ![i] = <<Outcome(sections)>>]
       ELSE /\ pc' = [pc EXCEPT ![i] = next]
            /\ UNCHANGED outs
    /\ UNCHANGED <<gens, thresholdVars, evalVars, wizardVars, moduleVars, quoteVars>>

Enter(i) ==
    /\ pc[i] = 0
    /\ Proceed(i, <<_generate_header(gens[i]), _generate_variables(gens[i]), _generate_html_start(gens[i])>>, 1)

Consider(i) ==
    /\ pc[i] \in 1..Len(SectionSteps(gens[i]))
    /\ Proceed(i, frames[Local(i)] \o SectionSteps(gens[i])[pc[i]], pc[i] + 1)

Return(i) ==
    /\ pc[i] = LastStep(gens[i])
    /\ outs' = [outs EXCEPT ![i] =
                    <<Outcome(frames[Local(i)] \o <<_generate_footer(gens[i]), _generate_html_end(gens[i])>>)>>]
    /\ pc' = [pc EXCEPT ![i] = Returned(gens[i])]
    /\ UNCHANGED <<gens, frames, thresholdVars, evalVars, wizardVars, moduleVars, quoteVars>>

ConcurrentSectionLists == { <<"kpi_cards", "velocity">>, <<"distribution", "header">> }
\* A generator wired as main wires it.
Configured(date_column, theme, thresholds, metric_configs, enabled_sections) ==
    [AddMetrics(DAXGenerator("Survey", date_column, theme), metric_configs) EXCEPT
        !.thresholds = thresholds, !.enabled_sections = enabled_sections]

\* Two generators given one theme object and one thresholds mapping.
InitConcurrent ==
    /\ \E theme \in {THEMES[n] : n \in ThemeChoices}, thresholds \in ThresholdDicts \ {<<>>},
          d \in [{1, 2} -> DateColumns],
          m \in [{1, 2} -> {<<>>, <<[name |-> <<"CSAT">>, column |-> "Score", aggregation |-> "AVERAGE", format |-> 2]>>}],
          e \in [{1, 2} -> ConcurrentSectionLists] :
            gens = [i \in {1, 2} |-> Configured(d[i], theme, thresholds, m[i], e[i])]
    /\ outs = [i \in {1, 2} |-> <<>>]
    /\ pc = [i \in {1, 2} |-> 0]
    /\ frames = [i \in {1, 2} |-> <<>>]
    /\ Idle
    /\ data = IdleData
    /\ NotEvaluated
    /\ Imported
    /\ NoWizard
    /\ NothingQuoted

NextConcurrent == \E i \in {1, 2} : Enter(i) \/ Consider(i) \/ Return(i)

SpecConcurrent == InitConcurrent /\ [][NextConcurrent]_vars

(***************************************************************************)
(* Evaluating the derived bindings of an artifact.  The window aggregates  *)
(* (the four CALCULATE bindings) return what the data gives; the bindings  *)
(* derived from them are evaluated in the order of the binding block.      *)
(***************************************************************************)
Averages == {BlankV} \cup {NumV(n, 1) : n \in -1..2}
\* COUNTROWS gives BLANK, not 0, when no row is in the window.
Counts == {BlankV} \cup {NumV(n, 1) : n \in 1..MaxRows}
DerivedNames == {V("Trend"), V("TrendPct"), V("TrendIcon"), V("TrendColor"), V("ResponseVelocity")}

RECURSIVE EvalVars(_, _)
EvalVars(decls, env) ==
    IF decls = <<>> THEN env
    ELSE LET d == Head(decls)
         IN  IF d.name \in DerivedNames
             THEN EvalVars(Tail(decls), [n \in DOMAIN env \cup {d.name} |->
                                            IF n = d.name THEN DaxEval(d.expr, env) ELSE env[n]])
             ELSE EvalVars(Tail(decls), env)

Variables(artifact) ==
    Concat([k \in 1..Len(artifact.fragments) |->
        IF artifact.fragments[k].kind = "variables" THEN artifact.fragments[k].vars ELSE <<>>])

InitEval ==
    /\ gens = [i \in {1} |-> DAXGenerator("Survey", "Date", THEMES["Corporate Blue"])]
    /\ outs = [i \in {1} |-> <<>>]
    /\ Idle
    /\ data \in [Last30DaysAvg : Averages, Previous30DaysAvg : Averages,
                 ResponsesLast30 : Counts, ResponsesPrev30 : Counts]
    \* a window without rows has no average
    /\ data.ResponsesLast30 = BlankV => data.Last30DaysAvg = BlankV
    /\ data.ResponsesPrev30 = BlankV => data.Previous30DaysAvg = BlankV
    /\ NotEvaluated
    /\ Imported
    /\ NoWizard
    /\ NoCallRunning
    /\ NothingQuoted

DataEnv ==
    [n \in {V("Last30DaysAvg"), V("Previous30DaysAvg"), V("ResponsesLast30"), V("ResponsesPrev30")} |->
        CASE n = V("Last30DaysAvg") -> data.Last30DaysAvg
          [] n = V("Previous30DaysAvg") -> data.Previous30DaysAvg
          [] n = V("ResponsesLast30") -> data.ResponsesLast30
          [] OTHER -> data.ResponsesPrev30]

Evaluate ==
    /\ outs[1] # <<>>
    /\ outs[1][1].status = "ok"
    /\ \E k \in 1..Len(Variables(outs[1][1])) : Variables(outs[1][1])[k].name = V("TrendPct")
    /\ bound' = EvalVars(Variables(outs[1][1]), DataEnv)
    /\ UNCHANGED <<genVars, thresholdVars, data, wizardVars, moduleVars, callVars, quoteVars>>

NextEval ==
    \/ AddMetric(1, <<"CSAT">>, "Score", "AVERAGE", 2)
    \/ GenerateDax(1)
    \/ Evaluate

SpecEval == InitEval /\ [][NextEval]_vars

(***************************************************************************)
(* The distribution section on a row.  val is the value the row has in the *)
(* metric columns, in tenths; CountRow evaluates the predicate of each     *)
(* CALCULATE(COUNTROWS(...), <predicate>) of the section for that row, as  *)
(* the filter does row by row.                                             *)
(***************************************************************************)
RowValues == {NumV(n, 10) : n \in (-MaxTenths)..MaxTenths} \cup {BlankV}
DistributionMetrics ==
    { [name |-> <<"CSAT">>, column |-> "Score", aggregation |-> "AVERAGE", format |-> 2],
      [name |-> <<"Net", " ", "Score">>, column |-> "Rating", aggregation |-> "SUM", format |-> 1] }
DistributionThresholds ==
    { <<>>, <<[name |-> <<"CSAT">>, config |-> RangeThreshold]>> }

BucketPredicates(artifact) ==
    LET parts == Concat([k \in 1..Len(artifact.fragments) |->
                    IF artifact.fragments[k].kind = "distribution" THEN artifact.fragments[k].parts ELSE <<>>])
        buckets == SelectSeq(parts, LAMBDA e : e.op = "call" /\ e.s = <<"CALCULATE">>)
    IN  [k \in 1..Len(buckets) |-> buckets[k].args[2]]

RowEnv(self) ==
    [c \in {Col(self.table, self.metrics[k].column).s : k \in 1..Len(self.metrics)} |-> val]

InitDistribution ==
    /\ gens = [i \in {1} |-> DAXGenerator("Survey", NoDateColumn, THEMES["Corporate Blue"])]
    /\ outs = [i \in {1} |-> <<>>]
    /\ thr = CsatThreshold
    /\ val \in RowValues
    /\ colour = NotBuilt
    /\ status = NotBuilt
    /\ data = IdleData
    /\ NotEvaluated
    /\ Imported
    /\ NoWizard
    /\ NoCallRunning
    /\ NothingQuoted

CountRow ==
    /\ outs[1] # <<>>
    /\ outs[1][1].status = "ok"
    /\ BucketPredicates(outs[1][1]) # <<>>
    /\ bound' = [k \in 1..Len(BucketPredicates(outs[1][1])) |->
                    DaxEval(BucketPredicates(outs[1][1])[k], RowEnv(gens[1]))]
    /\ UNCHANGED <<genVars, thresholdVars, data, wizardVars, moduleVars, callVars, quoteVars>>

NextDistribution ==
    \/ \E m \in DistributionMetrics : AddMetric(1, m.name, m.column, m.aggregation, m.format)
    \/ \E t \in DistributionThresholds : SetThresholds(1, t)
    \/ SetEnabledSections(1, <<"distribution">>)
    \/ GenerateDax(1)
    \/ CountRow

SpecDistribution == InitDistribution /\ [][NextDistribution]_vars

(***************************************************************************)
(* Reading a built condition: its tests, its branches, the branch taken.   *)
(***************************************************************************)
RECURSIVE Tests(_)
Tests(e) == IF e.op = "IF" /\ Len(e.args) = 3 THEN <<e.args[1]>> \o Tests(e.args[3])
            ELSE IF e.op = "IF" THEN <<e.args[1]>> ELSE <<>>
RECURSIVE Branches(_)
Branches(e) == IF e.op = "IF" /\ Len(e.args) = 3 THEN <<e.args[2]>> \o Branches(e.args[3])
               ELSE IF e.op = "IF" THEN <<e.args[2]>> ELSE <<e>>
RECURSIVE Numbers(_)
Numbers(e) == IF e.op = "num" THEN <<e.n>>
              ELSE IF Len(e.args) = 2 THEN Numbers(e.args[1]) \o Numbers(e.args[2])
              ELSE <<>>

Tiers == 1..4
\* excellent, good, warning, critical as colours of a theme.
TierColours(theme) == <<theme.success, theme.primary, theme.warning, theme.danger>>
ColourTiers == {k \in Tiers : colour.value = StrV(<<TierColours(THEMES[colour.theme])[k]>>)}
ColourTier == CHOOSE k \in Tiers : k \in ColourTiers
StatusTiers == {k \in 1..Len(Branches(status.expr)) : status.value = StrV(Branches(status.expr)[k].s)}
StatusTier == CHOOSE k \in Tiers : k \in StatusTiers

\* The bounds of tier k (k in 1..3) as configured, <<min, max>>.
TierBounds(t, k) ==
    CASE k = 1 -> <<t.excellent_min, t.excellent_max>>
      [] k = 2 -> <<t.good_min, t.good_max>>
      [] OTHER -> <<t.warning_min, t.warning_max>>
\* The bounds a direction uses, in the order excellent, good, warning.
ConfiguredBounds(t) ==
    Concat([k \in 1..3 |->
        CASE t.direction = "HIGHER_BETTER" -> <<TierBounds(t, k)[1].v>>
          [] t.direction = "LOWER_BETTER" -> <<TierBounds(t, k)[2].v>>
          [] OTHER -> <<TierBounds(t, k)[1].v, TierBounds(t, k)[2].v>>])
\* v meets tier k's condition.
Meets(t, k, v) ==
    CASE t.direction = "HIGHER_BETTER" -> AsNum(v).n >= TierBounds(t, k)[1].v
      [] t.direction = "LOWER_BETTER" -> AsNum(v).n <= TierBounds(t, k)[2].v
      [] OTHER -> AsNum(v).n >= TierBounds(t, k)[1].v /\ AsNum(v).n <= TierBounds(t, k)[2].v
FirstMet(t, v) ==
    IF \E k \in 1..3 : Meets(t, k, v)
    THEN CHOOSE k \in 1..3 : Meets(t, k, v) /\ \A j \in 1..(k - 1) : ~Meets(t, j, v)
    ELSE 4
\* Each tier at least as strict as the next one.
WellOrdered(t) ==
    CASE t.direction = "HIGHER_BETTER" ->
            t.excellent_min.v >= t.good_min.v /\ t.good_min.v >= t.warning_min.v
      [] t.direction = "LOWER_BETTER" ->
            t.excellent_max.v <= t.good_max.v /\ t.good_max.v <= t.warning_max.v
      [] OTHER ->
            /\ t.warning_min.v <= t.good_min.v /\ t.good_min.v <= t.excellent_min.v
            /\ t.excellent_min.v <= t.excellent_max.v
            /\ t.excellent_max.v <= t.good_max.v /\ t.good_max.v <= t.warning_max.v
\* v is a cut point of tier k: the cut of a one-sided tier, an endpoint of
\* a (non-empty) closed interval.
AtCut(t, k, v) ==
    /\ v.t = "num"
    /\ CASE t.direction = "HIGHER_BETTER" -> v.n = TierBounds(t, k)[1].v
         [] t.direction = "LOWER_BETTER" -> v.n = TierBounds(t, k)[2].v
         [] OTHER -> /\ TierBounds(t, k)[1].v <= TierBounds(t, k)[2].v
                     /\ v.n \in {TierBounds(t, k)[1].v, TierBounds(t, k)[2].v}

(***************************************************************************)
(* C5: for well-ordered bounds, under each direction and for every value,  *)
(* the colour expression evaluates to the colour of exactly one of the     *)
(* four tiers: never none, never two.                                      *)
(***************************************************************************)
C5_ExactlyOneTier ==
    (colour.built /\ WellOrdered(thr)) => Cardinality(ColourTiers) = 1
C5_Witness ==
    /\ colour.built /\ WellOrdered(thr) /\ thr.direction = "RANGE_OPTIMAL"
    /\ thr.excellent_min.v > thr.good_min.v /\ thr.good_max.v > thr.excellent_max.v
    /\ ColourTiers = {2}

(***************************************************************************)
(* C6 as stated: with excellent=[40,60], good=[30,70], warning=[20,80]     *)
(* the value 75 gets the good tier from both conditions.                   *)
(***************************************************************************)
C6_Case == thr = RangeThreshold /\ val = NumV(75, 1) /\ colour.built /\ status.built
C6_Original_75IsGood == C6_Case => (ColourTiers = {2} /\ StatusTiers = {2})
(***************************************************************************)
(* C6 amended: 75 lies outside [30,70] and inside [20,80]; both conditions *)
(* give it the warning tier (warning colour, third status label).          *)
(***************************************************************************)
C6_75IsWarning ==
    C6_Case => /\ colour.value = StrV(<<THEMES[colour.theme].warning>>)
               /\ ColourTiers = {3}
               /\ StatusTiers = {3}
C6_Witness == C6_Case

(***************************************************************************)
(* C7: a value equal to a cut point of tier k (>= for HIGHER_BETTER, <=    *)
(* for LOWER_BETTER, either endpoint of a closed RANGE_OPTIMAL interval)   *)
(* gets tier k unless a better tier also admits it: never a worse tier.    *)
(***************************************************************************)
C7_BoundaryInclusive ==
    colour.built =>
        \A k \in 1..3 :
            AtCut(thr, k, val) =>
                /\ ColourTier <= k
                /\ (\A j \in 1..(k - 1) : ~Meets(thr, j, val)) => ColourTier = k
C7_Witness ==
    /\ colour.built
    /\ \E k \in 2..3 : AtCut(thr, k, val) /\ ColourTiers = {k}
    /\ thr.direction = "HIGHER_BETTER" /\ thr.excellent_min.v > thr.good_min.v

(***************************************************************************)
(* C8: for every threshold, misordered ones included, both conditions test *)
(* excellent, then good, then warning, with critical as the default; the   *)
(* first tier whose condition holds is selected; the bounds appear in the  *)
(* tests exactly as configured, in the configured order.                   *)
(***************************************************************************)
C8_Reads(c) ==
    c.built =>
        /\ Len(Tests(c.expr)) = 3 /\ Len(Branches(c.expr)) = 4
        /\ Concat([k \in 1..3 |-> Numbers(Tests(c.expr)[k])]) = ConfiguredBounds(thr)
C8_FirstMatchWins ==
    /\ C8_Reads(colour)
    /\ C8_Reads(status)
    /\ colour.built => ColourTiers = {FirstMet(thr, val)}
    /\ status.built => StatusTiers = {FirstMet(thr, val)}
C8_Witness ==
    /\ colour.built /\ status.built /\ ~WellOrdered(thr)
    /\ Meets(thr, 2, val) /\ Meets(thr, 3, val) /\ ~Meets(thr, 1, val)
    /\ thr.warning_min.v > thr.good_min.v
    /\ ColourTiers = {2} /\ StatusTiers = {2}

(***************************************************************************)
(* Reading an artifact.                                                    *)
(***************************************************************************)
GeneratorIds == DOMAIN gens
Called(i) == outs[i] # <<>>
Artifact(i) == outs[i][Len(outs[i])]
Kinds(artifact) == {artifact.fragments[k].kind : k \in 1..Len(artifact.fragments)}
Declared(artifact) == {Variables(artifact)[k].name : k \in 1..Len(Variables(artifact))}

RECURSIVE RefsOf(_)
RefsOf(e) ==
    (IF e.op = "ref" THEN {e.s} ELSE {}) \cup UNION {RefsOf(e.args[k]) : k \in 1..Len(e.args)}

SectionRefs(artifact) ==
    UNION {UNION {RefsOf(artifact.fragments[k].parts[p]) : p \in 1..Len(artifact.fragments[k].parts)} :
            k \in {j \in 1..Len(artifact.fragments) : artifact.fragments[j].kind \in SectionIds}}

Registered(id) == AVAILABLE_SECTIONS[CHOOSE k \in 1..Len(AVAILABLE_SECTIONS) : AVAILABLE_SECTIONS[k].id = id]
Position(id) == CHOOSE k \in 1..Len(AVAILABLE_SECTIONS) : AVAILABLE_SECTIONS[k].id = id
CapabilityMet(self, section) ==
    /\ section.requires_categorical => self.categorical_columns # <<>>
    /\ section.requires_text => self.text_columns # <<>>
    /\ section.requires_date => self.date_col # NoDateColumn
SectionKinds(artifact) ==
    SelectSeq([k \in 1..Len(artifact.fragments) |-> artifact.fragments[k].kind], LAMBDA kind : kind \in SectionIds)

\* C1: in every artifact generated with at least one metric, each DAX
\* variable an optional section's fragment refers to is declared by a VAR
\* binding of the binding block.  The code does not keep this: the KPI cards
\* refer to <metric>_Color and <metric>_Status, which are bound only for a
\* metric that has a threshold, and the action dashboard refers to the
\* performer bindings, which exist only with a categorical column.
C1_NoUndefinedReference ==
    \A i \in GeneratorIds :
        (Called(i) /\ Artifact(i).status = "ok" /\ gens[i].metrics # <<>>)
            => SectionRefs(Artifact(i)) \subseteq Declared(Artifact(i))

\* C2: a requested section whose required capability (categorical column,
\* text column, date column) is missing is absent from the artifact, and with
\* a metric configured the request does not make generate_dax raise.
C2_CapabilityGating ==
    \A i \in GeneratorIds :
        Called(i) =>
            /\ gens[i].metrics # <<>> => Artifact(i).status = "ok"
            /\ Artifact(i).status = "ok" =>
                \A id \in SectionIds :
                    ~CapabilityMet(gens[i], Registered(id)) => id \notin Kinds(Artifact(i))

C2_Witness ==
    /\ Called(1)
    /\ Artifact(1).status = "ok"
    /\ gens[1].metrics # <<>>
    /\ gens[1].date_col = NoDateColumn
    /\ gens[1].text_columns = <<>>
    /\ gens[1].enabled_sections = <<"positive_verbatim", "trend_analysis">>
    /\ SectionKinds(Artifact(1)) = <<>>

\* C3: the optional sections of an artifact stand in the order of the
\* section registry, whatever the order in which they were requested.
C3_RegistryOrder ==
    \A i \in GeneratorIds :
        (Called(i) /\ Artifact(i).status = "ok") =>
            LET kinds == SectionKinds(Artifact(i))
            IN  \A j, k \in 1..Len(kinds) : j < k => Position(kinds[j]) < Position(kinds[k])

C3_Witness ==
    /\ Called(1)
    /\ gens[1].enabled_sections = <<"velocity", "header">>
    /\ SectionKinds(Artifact(1)) = <<"header", "velocity">>

\* C4: every registry section that is requested and whose capability is
\* met is rendered into the artifact, the geographic section included.  The
\* code does not keep this: generate_dax has no branch for geographic.
C4_EverySurvivorRendered ==
    \A i \in GeneratorIds :
        (Called(i) /\ Artifact(i).status = "ok") =>
            \A id \in SectionIds :
                (In(id, gens[i].enabled_sections) /\ CapabilityMet(gens[i], Registered(id)))
                    => id \in Kinds(Artifact(i))

\* A denominator is 0 when DAX compares it equal to 0, as BLANK does.
DenominatorZero(v) == IsNumeric(v) /\ Same(v, NumV(0, 1))

\* C9: TrendPct is 0 when Previous30DaysAvg is 0, and ResponseVelocity is 0
\* when ResponsesPrev30 is 0.  The code does not keep the second half: the
\* else-branch of ResponseVelocity is BLANK().
C9_ZeroWhenDenominatorZero ==
    bound # NoBindings =>
        /\ DenominatorZero(data.Previous30DaysAvg) => bound[V("TrendPct")] = NumV(0, 1)
        /\ DenominatorZero(data.ResponsesPrev30) => bound[V("ResponseVelocity")] = NumV(0, 1)

C11_NeverRaises ==
    \A i \in GeneratorIds :
        gens[i].metrics # <<>> => \A k \in 1..Len(outs[i]) : outs[i][k].status = "ok"

C11_Witness ==
    /\ Called(1)
    /\ Len(gens[1].metrics) = 2
    /\ gens[1].categorical_columns # <<>>
    /\ gens[1].text_columns = <<>>
    /\ gens[1].thresholds = <<>>
    /\ gens[1].enabled_sections = <<"summary">>
    /\ Artifact(1).status = "ok"

TrendNames ==
    {V("Last30DaysAvg"), V("Previous30DaysAvg"), V("Trend"), V("TrendPct"), V("TrendIcon"),
     V("TrendColor"), V("ResponsesLast30"), V("ResponsesPrev30"), V("ResponseVelocity")}
IsTierName(name) == name # <<>> /\ name[Len(name)] \in {"_Color", "_Status"}

\* C12: with no metric, generate_dax still returns an artifact for every
\* combination of the other settings; its binding block declares
\* TotalResponses and no metric, tier or trend binding.  The code does not
\* keep this: with no metric, a categorical column or the distribution
\* section makes the call raise IndexError.
C12_EmptyMetricsStillProduces ==
    \A i \in GeneratorIds :
        (Called(i) /\ gens[i].metrics = <<>>) =>
            /\ Artifact(i).status = "ok"
            /\ V("TotalResponses") \in Declared(Artifact(i))
            /\ \A name \in Declared(Artifact(i)) : name \notin TrendNames /\ ~IsTierName(name)

\* C13: the wizard never calls generate_dax on a generator without metrics.
\* The code does not keep this: the Generate tab asks only for a config and
\* a theme, so a dataset without a selected metric reaches generate_dax.
C13_CallerRejectsNoMetrics ==
    \A i \in GeneratorIds : Called(i) => gens[i].metrics # <<>>

TierNames(m) ==
    {Suffixed(NoSpaces(m.name), "_Color"), Suffixed(NoSpaces(m.name), "_Status")}

\* C14: for a metric without a threshold the artifact neither declares
\* <metric>_Color or <metric>_Status nor uses them in a section.  The code
\* keeps the first half only: the metric's KPI card refers to both.
C14_NoTieringWithoutThreshold ==
    \A i \in GeneratorIds :
        (Called(i) /\ Artifact(i).status = "ok") =>
            \A k \in 1..Len(gens[i].metrics) :
                gens[i].metrics[k].name \notin Keys(gens[i].thresholds) =>
                    /\ TierNames(gens[i].metrics[k]) \cap Declared(Artifact(i)) = {}
                    /\ TierNames(gens[i].metrics[k]) \cap SectionRefs(Artifact(i)) = {}

RECURSIVE NodesOf(_)
NodesOf(e) == {e} \cup UNION {NodesOf(e.args[k]) : k \in 1..Len(e.args)}

AllNodes(artifact) ==
    UNION {UNION {NodesOf(artifact.fragments[k].vars[p].expr) : p \in 1..Len(artifact.fragments[k].vars)}
             \cup UNION {NodesOf(artifact.fragments[k].parts[p]) : p \in 1..Len(artifact.fragments[k].parts)} :
           k \in 1..Len(artifact.fragments)}

ColumnsOf(self) ==
    (IF self.date_col = NoDateColumn THEN {} ELSE {self.date_col})
        \cup {self.metrics[k].column : k \in 1..Len(self.metrics)}
        \cup Elements(self.categorical_columns)
        \cup {self.text_columns[k].name : k \in 1..Len(self.text_columns)}
        \cup {self.text_columns[k].score : k \in 1..Len(self.text_columns)}
\* Columns of the summary table the binding block builds.
SummaryColumns == {"AvgScore", "RecordCount"}

C20_Idempotent ==
    Len(quoted.results) >= 2 => quoted.results[2] = quoted.results[1]

\* C19: whatever the direction and the value, the status expression gives
\* "excellent" in the first tier, "strong" or "good" in the second, "needs
\* attention" or "elevated" in the third and "critical" in the fourth.  The
\* code does not keep this for RANGE_OPTIMAL, whose labels are "optimal",
\* "acceptable", "suboptimal" and "out of range".
C19_FourTierLabels ==
    status.built =>
        \E k \in Tiers :
            /\ k = FirstMet(thr, val)
            /\ status.value \in
                 {StrV(<<label>>) : label \in
                    CASE k = 1 -> {"excellent"}
                      [] k = 2 -> {"strong", "good"}
                      [] k = 3 -> {"needs attention", "elevated"}
                      [] OTHER -> {"critical"}}

KindsInOrder(artifact) == [k \in 1..Len(artifact.fragments) |-> artifact.fragments[k].kind]

\* C16: every artifact has the same skeleton: header comment, binding block,
\* markup open (VAR HtmlContent), the section fragments, the footer exactly
\* once, the markup close with RETURN HtmlContent; one and the same
\* separator stands between any two consecutive fragments.
C16_FixedSkeleton ==
    \A i \in GeneratorIds :
        (Called(i) /\ Artifact(i).status = "ok") =>
            LET a == Artifact(i)
                kinds == KindsInOrder(a)
                n == Len(kinds)
            IN  /\ n >= 5
                /\ SubSeq(kinds, 1, 3) = <<"comment", "variables", "html_start">>
                /\ SubSeq(kinds, n - 1, n) = <<"footer", "html_end">>
                /\ \A k \in 4..(n - 2) : kinds[k] \in SectionIds
                /\ Cardinality({k \in 1..n : kinds[k] = "footer"}) = 1
                /\ a.fragments[3].vars = <<Var(V("HtmlContent"), Txt(gens[i].theme.background))>>
                /\ a.fragments[n].parts = <<R("HtmlContent")>>
                /\ Len(a.separators) = n - 1
                /\ \A k \in 1..(n - 1) : a.separators[k] = "\n\n"

C16_Witness ==
    /\ Called(1)
    /\ Artifact(1).status = "ok"
    /\ Len(gens[1].enabled_sections) = Len(AVAILABLE_SECTIONS)
    /\ gens[1].categorical_columns # <<>>
    /\ gens[1].text_columns # <<>>
    /\ gens[1].date_col # NoDateColumn
    /\ Len(Artifact(1).fragments) = 16

\* C17: a call of generate_dax leaves the generator it is called on (table,
\* date column, theme, metrics, thresholds, categorical and text columns,
\* enabled sections, icons) and the module-level THEMES, ICONS and
\* AVAILABLE_SECTIONS as they were.
C17_NoRetainedState ==
    [][\A i \in GeneratorIds : outs'[i] # <<>> => (gens'[i] = gens[i] /\ module' = module)]_vars

C17_Witness ==
    /\ Len(outs[1]) = MaxCalls
    /\ outs[2] = <<>>
    /\ gens[1].metrics # <<>>
    /\ gens[1].enabled_sections = <<"kpi_cards">>
    /\ module = Module

\* C18: calls of generate_dax that run at the same time on generators of
\* different configurations, sharing a theme and a thresholds mapping, do
\* not interact: whatever the interleaving of their statements, each returns
\* what the call returns when it runs alone.
C18_NoInterference ==
    \A i \in GeneratorIds :
        pc[i] = Returned(gens[i]) => outs[i] = <<generate_dax(gens[i])>>

C18_Witness ==
    /\ pc[1] = Returned(gens[1])
    /\ pc[2] \in 2..Len(SectionSteps(gens[2]))
    /\ gens[1] # gens[2]
    /\ gens[1].theme = gens[2].theme
    /\ gens[1].thresholds = gens[2].thresholds
    /\ gens[1].metrics # <<>>
    /\ outs[1][1].status = "ok"
    /\ Len(frames[2]) > 3

\* The number of bindings _generate_variables emits for the first k metrics.
RECURSIVE Emitted(_, _)
Emitted(self, k) ==
    IF k = 0 THEN 0
    ELSE Emitted(self, k - 1) + (IF self.metrics[k].name \in Keys(self.thresholds) THEN 3 ELSE 1)

ValueForm(self, m) ==
    Call("ROUND", <<Call(m.aggregation, <<Node("col", <<>>, <<"'", self.table, "'", "[", m.column, "]">>, 0)>>),
                    Num(m.format)>>)

\* C21: the binding block has exactly one value binding per metric, in the
\* order the metrics were added, each VAR <name without spaces> =
\* ROUND(<aggregation>('<table>'[<column>]), <decimals>); the metric's _Color
\* and _Status bindings are there if and only if thresholds has an entry under
\* the metric's name, and then they follow the value binding immediately,
\* before the next metric's binding.
C21_MetricBindings ==
    \A i \in GeneratorIds :
        (Called(i) /\ Artifact(i).status = "ok") =>
            LET self == gens[i]
                decls == Variables(Artifact(i))
                n == Len(self.metrics)
            IN  n > 0 =>
                /\ Cardinality({p \in 1..Len(decls) :
                        \E k \in 1..n : decls[p] = Var(NoSpaces(self.metrics[k].name),
                                                       ValueForm(self, self.metrics[k]))}) = n
                /\ \E first \in 1..Len(decls) :
                    \A k \in 1..n :
                        LET m == self.metrics[k]
                            at == first + Emitted(self, k - 1)
                            tiered == m.name \in Keys(self.thresholds)
                        IN  /\ at <= Len(decls)
                            /\ decls[at] = Var(NoSpaces(m.name), ValueForm(self, m))
                            /\ tiered =>
                                    /\ at + 2 <= Len(decls)
                                    /\ decls[at + 1].name = Suffixed(NoSpaces(m.name), "_Color")
                                    /\ decls[at + 2].name = Suffixed(NoSpaces(m.name), "_Status")
                            /\ ~tiered => TierNames(m) \cap Declared(Artifact(i)) = {}

C21_Witness ==
    /\ Called(1)
    /\ Artifact(1).status = "ok"
    /\ Len(gens[1].metrics) = 2
    /\ gens[1].metrics[1].name = <<"CSAT">>
    /\ gens[1].metrics[2].name = <<"Net", " ", "Score">>
    /\ Keys(gens[1].thresholds) = {<<"CSAT">>}
    /\ gens[1].date_col # NoDateColumn
    /\ \E p \in 1..Len(Variables(Artifact(1))) :
            /\ Variables(Artifact(1))[p].name = <<"CSAT", "_Status">>
            /\ Variables(Artifact(1))[p + 1].name = <<"Net", "Score">>

\* C22: under each of the three directions the colour expression returns
\* the theme's success token for the excellent tier, primary for good,
\* warning for warning and danger for critical, each as a string literal
\* whose text is the theme's token text itself.
C22_TierColourTokens ==
    colour.built =>
        LET theme == THEMES[colour.theme]
            branches == Branches(colour.expr)
        IN  /\ Len(branches) = 4
            /\ \A k \in Tiers :
                    /\ branches[k].op = "str"
                    /\ branches[k].s = <<TierColours(theme)[k]>>
                    /\ branches[k].args = <<>>
            /\ colour.value = StrV(<<TierColours(theme)[FirstMet(thr, val)]>>)

C22_Witness ==
    /\ colour.built
    /\ colour.theme = "Elegant Green"
    /\ thr.direction = "LOWER_BETTER"
    /\ WellOrdered(thr)
    /\ thr.excellent_max.v < thr.good_max.v
    /\ FirstMet(thr, val) = 2
    /\ colour.value = StrV(<<THEMES["Elegant Green"].primary>>)
    /\ THEMES["Elegant Green"].primary # THEMES["Elegant Green"].secondary

\* The trend and velocity bindings, in the order of the template.
TrendNameOrder ==
    <<V("Last30DaysAvg"), V("Previous30DaysAvg"), V("Trend"), V("TrendPct"), V("TrendIcon"),
      V("TrendColor"), V("ResponsesLast30"), V("ResponsesPrev30"), V("ResponseVelocity")>>
NamesOf(decls) == [p \in 1..Len(decls) |-> decls[p].name]
\* The positions of the value and tier bindings of the metrics.
MetricPositions(self, decls) ==
    {p \in 1..Len(decls) :
        \E k \in 1..Len(self.metrics) :
            \/ decls[p] = Var(NoSpaces(self.metrics[k].name), ValueForm(self, self.metrics[k]))
            \/ /\ decls[p].name \in TierNames(self.metrics[k])
               /\ self.metrics[k].name \in Keys(self.thresholds)}
\* Where the block of trend and velocity bindings starts, if it is there.
TrendBlocks(decls) ==
    {p \in 1..(Len(decls) - 8) : SubSeq(NamesOf(decls), p, p + 8) = TrendNameOrder}

\* C23: the trend bindings (Last30DaysAvg, Previous30DaysAvg, Trend,
\* TrendPct, TrendIcon, TrendColor) and the velocity bindings
\* (ResponsesLast30, ResponsesPrev30, ResponseVelocity) are in the binding
\* block if and only if a date column is set and there is a metric; they
\* come after every metric binding and after Date30DaysAgo and Date60DaysAgo;
\* the two trend aggregates apply the first metric's aggregation to the
\* first metric's column.
C23_TrendBindings ==
    \A i \in GeneratorIds :
        (Called(i) /\ Artifact(i).status = "ok") =>
            LET self == gens[i]
                decls == Variables(Artifact(i))
                metric == MetricPositions(self, decls)
            IN  IF self.date_col # NoDateColumn /\ self.metrics # <<>> THEN
                    /\ Cardinality(TrendBlocks(decls)) = 1
                    /\ \A p \in TrendBlocks(decls) :
                        LET first == self.metrics[1]
                            agg == Call(first.aggregation,
                                        <<Node("col", <<>>, <<"'", self.table, "'", "[", first.column, "]">>, 0)>>)
                        IN  /\ \A q \in metric : q < p
                            /\ \A q \in 1..Len(decls) :
                                    decls[q].name \in {V("Date30DaysAgo"), V("Date60DaysAgo")} => q < p
                            /\ \E q, r \in 1..(p - 1) :
                                    decls[q].name = V("Date30DaysAgo") /\ decls[r].name = V("Date60DaysAgo")
                            /\ decls[p].expr.s = <<"CALCULATE">> /\ decls[p].expr.args[1] = agg
                            /\ decls[p + 1].expr.s = <<"CALCULATE">> /\ decls[p + 1].expr.args[1] = agg
                ELSE
                    \A p \in 1..Len(decls) :
                        decls[p].name \in Elements(TrendNameOrder) => p \in metric

C23_Witness ==
    /\ Called(1)
    /\ Artifact(1).status = "ok"
    /\ gens[1].date_col = "Date"
    /\ Len(gens[1].metrics) = 2
    /\ gens[1].metrics[1].name = <<"Net", " ", "Score">>
    /\ gens[1].metrics[2].name = <<"CSAT">>
    /\ gens[1].metrics[2].aggregation = "AVERAGE"
    /\ Keys(gens[1].thresholds) = {<<"CSAT">>}
    /\ \E p \in TrendBlocks(Variables(Artifact(1))) :
            /\ Variables(Artifact(1))[p - 1].name = <<"CSAT", "_Status">>
            /\ Variables(Artifact(1))[p].expr.args[1].s = <<"SUM">>

\* The summary and the bindings derived from it, in the order of the template.
PerformanceNameOrder ==
    <<V("PerformanceSummary"), V("TopPerformer"), V("BottomPerformer"), V("TopPerformerName"),
      V("TopPerformerScore"), V("TopPerformerCount"), V("BottomPerformerName"),
      V("BottomPerformerScore"), V("BottomPerformerCount"), V("Top3Performers"),
      V("Bottom3Performers"), V("Top3Text"), V("Bottom3Text")>>
PerformanceBlocks(decls) ==
    {p \in 1..(Len(decls) - 12) : SubSeq(NamesOf(decls), p, p + 12) = PerformanceNameOrder}
\* TOPN(n, PerformanceSummary, [AvgScore], direction)
TopN(n, direction) ==
    Call("TOPN", <<Num(n), Ref(V("PerformanceSummary")),
                   Node("col", <<>>, <<"[", "AvgScore", "]">>, 0), Node("keyword", <<>>, <<direction>>, 0)>>)

AllDeclarations(artifact) ==
    Concat([k \in 1..Len(artifact.fragments) |-> artifact.fragments[k].vars])

\* C25: no VAR name is declared twice in an artifact: distinct metrics give
\* distinct binding names, and no <name>, <name>_Color or <name>_Status of a
\* metric is the name of another metric's binding or of a fixed binding
\* (TotalResponses, MaxDate, Trend, PerformanceSummary, HtmlContent, ...).
\* The code does not keep this: "Net Score" and "NetScore" are two metrics
\* with the one binding name NetScore, and a metric named Trend is bound
\* under the name the trend block declares.
C25_UniqueDeclarations ==
    \A i \in GeneratorIds :
        (Called(i) /\ Artifact(i).status = "ok") =>
            LET decls == AllDeclarations(Artifact(i))
            IN  \A p, q \in 1..Len(decls) : decls[p].name = decls[q].name => p = q

\* C26: in the wizard, whatever metrics were selected and deselected in
\* earlier runs, the metrics of the generator that Generate builds are the
\* metrics selected in Data Setup now, in their order; with every metric
\* deselected the generator has none.  The code does not keep this: with no
\* metric selected the Metrics & Thresholds tab does not run, metric_configs
\* stays as the last run with a metric left it, and Generate adds them.
C26_GeneratorGetsSelectedMetrics ==
    \A i \in GeneratorIds :
        (Called(i) /\ session.config.some) =>
            [k \in 1..Len(gens[i].metrics) |-> gens[i].metrics[k].name]
                = [k \in 1..Len(session.config.v.metrics) |-> <<session.config.v.metrics[k]>>]

\* The ids on the "Sections:" line of the header comment.
HeaderSections(artifact) ==
    LET listed == artifact.fragments[1].parts[2].args
    IN  {listed[k].s[1] : k \in 1..Len(listed)}

\* C27: the "Sections:" line of the header comment names exactly the
\* sections rendered in the artifact: no id that gating dropped, that is
\* unknown, or that has no fragment.  The code does not keep this: the line
\* is enabled_sections as requested.
C27_HeaderListsRendered ==
    \A i \in GeneratorIds :
        (Called(i) /\ Artifact(i).status = "ok") =>
            HeaderSections(Artifact(i)) = Kinds(Artifact(i)) \cap SectionIds

\* The position of the branch a built condition takes for the value: the
\* first test that holds, the default after the last test otherwise.
Selected(c) ==
    LET tests == Tests(c.expr)
        holds(k) == Truth(DaxEval(tests[k], [x \in {thr.metric_name} |-> val]))
    IN  IF \E k \in 1..Len(tests) : holds(k)
        THEN CHOOSE k \in 1..Len(tests) : holds(k) /\ \A j \in 1..(k - 1) : ~holds(j)
        ELSE Len(tests) + 1

\* C28: for every threshold, of any direction and with misordered bounds
\* too, and for every value, the colour expression and the status expression
\* take the branch of the same position: the value gets the k-th colour
\* token exactly when it gets the k-th status label.
C28_SameTierPosition ==
    (colour.built /\ status.built) =>
        /\ Selected(colour) = Selected(status)
        /\ Len(Branches(colour.expr)) = Len(Branches(status.expr))
        /\ colour.value = StrV(Branches(colour.expr)[Selected(colour)].s)
        /\ status.value = StrV(Branches(status.expr)[Selected(colour)].s)

C28_Witness ==
    /\ colour.built /\ status.built
    /\ thr.direction = "RANGE_OPTIMAL"
    /\ ~WellOrdered(thr)
    /\ thr.good_min.v > thr.good_max.v
    /\ Selected(colour) = 3 /\ Selected(status) = 3
    /\ status.value = StrV(<<"suboptimal">>)

\* A configuration without the categorical columns and the text mappings
\* after the first.
FirstOnly(self) ==
    [self EXCEPT !.categorical_columns = SubSeq(@, 1, Min(Len(@), 1)),
                 !.text_columns = SubSeq(@, 1, Min(Len(@), 1))]

\* C29: the artifact depends on categorical_columns only through its first
\* element and on text_columns only through its first mapping: two
\* configurations that differ only in categorical columns after the first
\* or in text mappings after the first give the same artifact.
C29_OnlyFirstColumns ==
    \A i, j \in GeneratorIds :
        (Called(i) /\ Called(j) /\ FirstOnly(gens[i]) = FirstOnly(gens[j]))
            => Artifact(i) = Artifact(j)

C29_Witness ==
    /\ Called(1) /\ Called(2)
    /\ gens[1].categorical_columns = <<"Region">>
    /\ gens[2].categorical_columns = <<"Region", "Team">>
    /\ Len(gens[1].text_columns) = 2
    /\ Len(gens[2].text_columns) = 1
    /\ FirstOnly(gens[1]) = FirstOnly(gens[2])
    /\ gens[1].metrics # <<>>
    /\ Artifact(1).status = "ok"
    /\ {"performance_table", "theme_analysis", "positive_verbatim"} \subseteq Kinds(Artifact(1))
    /\ Artifact(1) = Artifact(2)

RECURSIVE ColumnsIn(_)
ColumnsIn(e) ==
    (IF e.op = "col" THEN {e.s} ELSE {}) \cup UNION {ColumnsIn(e.args[k]) : k \in 1..Len(e.args)}

\* C30: the four row-count predicates of the distribution section (value >=
\* 9; >= 7 and < 9; >= 5 and < 7; < 5) partition the values of the first
\* metric's column: a row with a numeric value satisfies exactly one of
\* them; the cut points are the literals 9, 7 and 5 whatever the
\* configuration.
C30_BucketsPartition ==
    /\ \A i \in GeneratorIds :
            (Called(i) /\ Artifact(i).status = "ok" /\ "distribution" \in Kinds(Artifact(i))) =>
                LET predicates == BucketPredicates(Artifact(i))
                    first == gens[i].metrics[1]
                IN  /\ [k \in 1..Len(predicates) |-> Numbers(predicates[k])]
                            = << <<9>>, <<7, 9>>, <<5, 7>> , <<5>> >>
                    /\ \A k \in 1..Len(predicates) :
                            ColumnsIn(predicates[k]) = {<<"'", gens[i].table, "'", "[", first.column, "]">>}
    /\ (bound # NoBindings /\ val.t = "num") =>
            /\ Len(bound) = 4
            /\ \A k \in 1..4 : bound[k].t = "bool"
            /\ Cardinality({k \in 1..4 : Truth(bound[k])}) = 1

C30_Witness ==
    /\ Called(1)
    /\ bound # NoBindings
    /\ val = NumV(90, 10)
    /\ Truth(bound[1])
    /\ Len(gens[1].metrics) = 2
    /\ gens[1].metrics[1].column = "Rating"
    /\ gens[1].thresholds # <<>>
    /\ "distribution" \in Kinds(Artifact(1))

====
